---- MODULE Spec2Model ----
(***************************************************************************)
(* Builder Hub on Base - backend server (src/unnamed/part_007).            *)
(*                                                                         *)
(* The model covers the ownership resolver (getContractDeployer), the      *)
(* request handlers that use it (/api/register, /api/verify-contract-owner,*)
(* /api/verify-signature), the admin handlers (/api/approve, /api/reject), *)
(* the stats pass of the cron job (updateAllStats, recalculateRankings)    *)
(* and the two tables they work on (developers, project_stats).            *)
(*                                                                         *)
(* A handler is split where it awaits the database after having read it:   *)
(* other requests run between the two halves.  The resolver only reads the *)
(* explorer and the chain node, so it is evaluated inside the step of the  *)
(* handler that awaits it.                                                 *)
(***************************************************************************)
EXTENDS Integers, Sequences, FiniteSets, Bags, TLC

VARIABLES
    BASESCAN_API_KEY,   \* TRUE when process.env.BASESCAN_API_KEY is set
    pool,               \* TRUE when the pg Pool was created (DATABASE_URL set)
    developers,         \* table developers: sequence of rows, id = position (SERIAL)
    project_stats,      \* table project_stats: sequence of rows, id = position
    inflight,           \* bag of /api/register requests between their SELECT and their write
    request,            \* a request on the wire together with the upstream answers it will meet,
                        \* or the running pass of the cron job
    last                \* the handler step just taken: its inputs and its response

vars == <<BASESCAN_API_KEY, pool, developers, project_stats, inflight, request, last>>

(***************************************************************************)
(* Bounds                                                                  *)
(***************************************************************************)
MaxTx == 2          \* longest transaction list the explorer returns to the resolver
MaxInflight == 2    \* register requests that may wait on the database at once

(***************************************************************************)
(* Addresses.  A string that spells an address is a record: the 20 bytes   *)
(* (id) and the spelling (cs).  toLowerCase changes the spelling only.     *)
(***************************************************************************)
Addr(id, cs) == [id |-> id, cs |-> cs]
EMPTY == Addr("", "lower")          \* '' , undefined or null request field
NULL == Addr("null", "lower")       \* JavaScript null / SQL NULL
MALFORMED == Addr("0x12", "bad")    \* a non-empty string that is no address
NoPrefix(id) == Addr(id, "noprefix")    \* the 40 hex digits without the leading 0x

toLowerCase(a) == IF a.cs = "mixed" THEN Addr(a.id, "lower") ELSE a

\* ethers.utils.isAddress (ethers v5): true when getAddress does not throw,
\* and getAddress takes /^(0x)?[0-9a-fA-F]{40}$/, the prefix being optional
\* ("mixed" stands for a spelling whose checksum is right)
isAddress(a) == a.cs \in {"lower", "mixed", "noprefix"} /\ a.id \notin {"", "null"}

\* x.match(/^0x[a-fA-F0-9]{40}$/)
match(a) == a.cs \in {"lower", "mixed"} /\ a.id \notin {"", "null"}

Truthy(a) == a # EMPTY /\ a # NULL

WalletIds == {"w1", "w2"}
Spellings == {"lower", "mixed"}

(***************************************************************************)
(* The chain and what the explorer and the node answer about one address.  *)
(* creator is the wallet that originated the creation transaction of the   *)
(* address (EMPTY: nothing was ever deployed there).  The answers are those*)
(* a chain with that creator can give.                                     *)
(***************************************************************************)
Creators == {Addr(w, "lower") : w \in WalletIds} \cup {EMPTY}

Tx(from, to, contractAddress) ==
    [from |-> from, to |-> to, contractAddress |-> contractAddress]

\* the creation transaction: empty 'to', 'contractAddress' is the new contract
CreationTxs(target, creator) ==
    IF creator = EMPTY THEN {}
    ELSE {Tx(Addr(creator.id, "mixed"), EMPTY, Addr(target.id, "lower")),
          Tx(Addr(creator.id, "lower"), EMPTY, Addr(target.id, "mixed"))}

\* an ordinary transaction sent to the address by some wallet
CallTxs(target) ==
    {Tx(Addr("w1", "lower"), Addr(target.id, "lower"), EMPTY),
     Tx(Addr("w2", "mixed"), Addr(target.id, "mixed"), EMPTY)}

\* a transaction sent by the address itself (the address is an account)
SelfTxs(target) ==
    {Tx(Addr(target.id, "lower"), Addr("w1", "lower"), EMPTY)}

TxShapes(target, creator) ==
    CreationTxs(target, creator) \cup CallTxs(target) \cup SelfTxs(target)

SeqsUpTo(S, n) == UNION {[1..k -> S] : k \in 0..n}

\* answers of module=account&action=txlist
TxListResponses(target, creator, n) ==
    {[status |-> "1", message |-> "OK", result |-> l] :
         l \in SeqsUpTo(TxShapes(target, creator), n) \ {<<>>}}
    \cup {[status |-> "0", message |-> "No transactions found", result |-> <<>>],
          [status |-> "0", message |-> "NOTOK", result |-> <<>>],       \* rate limit
          [status |-> "throw", message |-> "timeout", result |-> <<>>]} \* axios rejects

\* answers of module=contract&action=getcontractcreation
CreationResponses(creator) ==
    (IF creator = EMPTY THEN {}
     ELSE {[status |-> "1", contractCreator |-> Addr(creator.id, cs)] : cs \in Spellings})
    \cup {[status |-> "0", contractCreator |-> EMPTY],
          [status |-> "throw", contractCreator |-> EMPTY]}

\* answers of provider.getCode
CodeResponses(creator) ==
    {IF creator = EMPTY THEN "0x" ELSE "0x6080", "throw"}

(***************************************************************************)
(* getContractDeployer                                                     *)
(***************************************************************************)
RECURSIVE ScanForCreation(_, _)
\* the for loop over txResponse.data.result: the sender of the first
\* transaction with isCreationTx && txFrom, NULL when the loop falls through
ScanForCreation(txs, normalizedAddress) ==
    IF txs = <<>> THEN NULL
    ELSE LET tx == Head(txs)
             txTo == toLowerCase(tx.to)
             txFrom == toLowerCase(tx.from)
             txContractAddress == toLowerCase(tx.contractAddress)
             isCreationTx == \/ txTo = EMPTY
                             \/ txContractAddress = normalizedAddress
                             \/ (txTo = normalizedAddress /\ txFrom # normalizedAddress)
         IN  IF isCreationTx /\ Truthy(txFrom) THEN toLowerCase(txFrom)
             ELSE ScanForCreation(Tail(txs), normalizedAddress)

\* Method 1 without the first-transaction fallback after the loop
Method1_NoFallback(r1, normalizedAddress) ==
    IF r1.status = "1" /\ Len(r1.result) > 0
    THEN ScanForCreation(r1.result, normalizedAddress)
    ELSE NULL

\* Method 1: the deployer the transaction list gives, NULL when it gives none
Method1(r1, normalizedAddress) ==
    IF r1.status = "1" /\ Len(r1.result) > 0
    THEN LET found == ScanForCreation(r1.result, normalizedAddress)
             firstTx == r1.result[1]
         IN  IF found # NULL THEN found
             ELSE IF Truthy(firstTx.from) THEN toLowerCase(firstTx.from)
             ELSE NULL
    ELSE NULL

\* Method 2: the deployer getcontractcreation gives, NULL when it gives none
Method2(r2) ==
    IF r2.status = "1" /\ Truthy(r2.contractCreator)
    THEN toLowerCase(r2.contractCreator)
    ELSE NULL

\* The result of getContractDeployer together with the calls it issued and
\* the return statement it left by.
GetContractDeployer(contractAddress, key, r1, r2, r3) ==
    LET normalizedAddress == toLowerCase(contractAddress)
        d1 == IF key THEN Method1(r1, normalizedAddress) ELSE NULL
        d2 == IF key THEN Method2(r2) ELSE NULL
        c12 == IF key THEN <<"txlist", "getcontractcreation">> ELSE <<>>
    IN  IF key /\ d1 # NULL
        THEN [deployer |-> d1, calls |-> <<"txlist">>, exit |-> "method1"]
        ELSE IF key /\ d2 # NULL
        THEN [deployer |-> d2, calls |-> c12, exit |-> "method2"]
        ELSE IF r3 = "0x"
        THEN [deployer |-> NULL, calls |-> c12 \o <<"getCode">>, exit |-> "no_code"]
        ELSE IF r3 = "throw"
        THEN [deployer |-> NULL, calls |-> c12 \o <<"getCode">>, exit |-> "rpc_error"]
        ELSE [deployer |-> NULL, calls |-> c12 \o <<"getCode">>, exit |-> "code_exists"]

(***************************************************************************)
(* POST /api/verify-contract-owner, one step per await: the validation,    *)
(* then the three upstream calls of getContractDeployer in turn.  Each     *)
(* call ends: axios rejects after its timeout (15 s, 10 s) and the         *)
(* provider rejects when the node does not answer.                         *)
(***************************************************************************)
NoRequest == [op |-> "none"]

\* no request of the model's single-request specifications is on the wire
\* (the cron job may be running a pass)
NoneOnWire == request.op \in {"none", "updateAllStats"}
NoResolve == [deployer |-> NULL, calls |-> <<>>, exit |-> "not_called"]

OwnerError(message) ==
    [status |-> 400, message |-> message, deployerMatches |-> FALSE,
     deployerAddress |-> NULL, requiresSignature |-> FALSE, resolve |-> NoResolve]

\* the response once getContractDeployer has returned res
OwnerResponse(res, walletAddress) ==
    IF ~Truthy(res.deployer)
    THEN [status |-> 200, message |-> "Could not automatically verify deployer",
          deployerMatches |-> FALSE, deployerAddress |-> NULL,
          requiresSignature |-> TRUE, resolve |-> res]
    ELSE [status |-> 200, message |-> "",
          deployerMatches |-> (res.deployer = toLowerCase(walletAddress)),
          deployerAddress |-> res.deployer,
          requiresSignature |-> FALSE, resolve |-> res]

OwnerEvent(resp) ==
    [op |-> "verify-contract-owner",
     contractAddress |-> request.contractAddress,
     walletAddress |-> request.walletAddress,
     creator |-> request.creator,
     r1 |-> request.r1, r2 |-> request.r2, r3 |-> request.r3,
     response |-> resp]

Respond(resp) ==
    /\ last' = OwnerEvent(resp)
    /\ request' = NoRequest

Continue(pc, calls) ==
    /\ request' = [request EXCEPT !.pc = pc, !.calls = calls]
    /\ UNCHANGED last

OwnerValidate ==
    /\ request.op = "verify-contract-owner"
    /\ request.pc = "received"
    /\ IF ~Truthy(request.contractAddress) \/ ~Truthy(request.walletAddress)
       THEN Respond(OwnerError("Missing contractAddress or walletAddress"))
       ELSE IF ~match(request.contractAddress)
       THEN Respond(OwnerError("Invalid contract address format"))
       ELSE IF ~match(request.walletAddress)
       THEN Respond(OwnerError("Invalid wallet address format"))
       ELSE Continue(IF BASESCAN_API_KEY THEN "method1" ELSE "method3", <<>>)
    /\ UNCHANGED <<BASESCAN_API_KEY, pool, developers, project_stats, inflight>>

\* Method 1 without its return statements: Method 2 is tried whatever the list holds
ResolveMethod1_AlwaysContinues ==
    /\ request.op = "verify-contract-owner"
    /\ request.pc = "method1"
    /\ Continue("method2", Append(request.calls, "txlist"))
    /\ UNCHANGED <<BASESCAN_API_KEY, pool, developers, project_stats, inflight>>

ResolveMethod1 ==
    /\ request.op = "verify-contract-owner"
    /\ request.pc = "method1"
    /\ LET calls == Append(request.calls, "txlist")
           d == Method1(request.r1, toLowerCase(request.contractAddress))
       IN  IF d # NULL
           THEN Respond(OwnerResponse([deployer |-> d, calls |-> calls, exit |-> "method1"],
                                      request.walletAddress))
           ELSE Continue("method2", calls)
    /\ UNCHANGED <<BASESCAN_API_KEY, pool, developers, project_stats, inflight>>

ResolveMethod2 ==
    /\ request.op = "verify-contract-owner"
    /\ request.pc = "method2"
    /\ LET calls == Append(request.calls, "getcontractcreation")
           d == Method2(request.r2)
       IN  IF d # NULL
           THEN Respond(OwnerResponse([deployer |-> d, calls |-> calls, exit |-> "method2"],
                                      request.walletAddress))
           ELSE Continue("method3", calls)
    /\ UNCHANGED <<BASESCAN_API_KEY, pool, developers, project_stats, inflight>>

\* the return statement Method 3 leaves by, for each answer of getCode
Method3Exit(r3) ==
    IF r3 = "0x" THEN "no_code"
    ELSE IF r3 = "throw" THEN "rpc_error"
    ELSE "code_exists"

\* Method 3 on a provider whose getCode never settles when the node is down
ResolveMethod3_NoTimeout ==
    /\ request.op = "verify-contract-owner"
    /\ request.pc = "method3"
    /\ request.r3 # "throw"
    /\ Respond(OwnerResponse([deployer |-> NULL,
                              calls |-> Append(request.calls, "getCode"),
                              exit |-> Method3Exit(request.r3)],
                             request.walletAddress))
    /\ UNCHANGED <<BASESCAN_API_KEY, pool, developers, project_stats, inflight>>

ResolveMethod3 ==
    /\ request.op = "verify-contract-owner"
    /\ request.pc = "method3"
    /\ Respond(OwnerResponse([deployer |-> NULL,
                              calls |-> Append(request.calls, "getCode"),
                              exit |-> Method3Exit(request.r3)],
                             request.walletAddress))
    /\ UNCHANGED <<BASESCAN_API_KEY, pool, developers, project_stats, inflight>>

(***************************************************************************)
(* Specification of the resolver: one /api/verify-contract-owner request,  *)
(* for every pair of inputs, every chain and every upstream answer.        *)
(***************************************************************************)
ResolverContracts == {Addr("c1", "lower"), Addr("c1", "mixed")}
ResolverWallets == {Addr("w1", "lower"), Addr("w1", "mixed"), Addr("w2", "lower")}

\* upstream answers of a request that never reaches the resolver
NoAnswers ==
    [creator |-> EMPTY,
     r1 |-> [status |-> "throw", message |-> "timeout", result |-> <<>>],
     r2 |-> [status |-> "throw", contractCreator |-> EMPTY],
     r3 |-> "throw"]

Answers(contractAddress, n) ==
    UNION {[creator : {creator},
            r1 : TxListResponses(contractAddress, creator, n),
            r2 : CreationResponses(creator),
            r3 : CodeResponses(creator)] : creator \in Creators}

OwnerRequest(contractAddress, walletAddress, a) ==
    [op |-> "verify-contract-owner", pc |-> "received", calls |-> <<>>,
     contractAddress |-> contractAddress, walletAddress |-> walletAddress,
     creator |-> a.creator, r1 |-> a.r1, r2 |-> a.r2, r3 |-> a.r3]

OwnerRequests ==
    {OwnerRequest(c, w, a) :
         c \in ResolverContracts, w \in ResolverWallets, a \in Answers(Addr("c1", "lower"), MaxTx)}
    \cup {OwnerRequest(c, w, NoAnswers) :
              c \in {EMPTY, MALFORMED, Addr("c1", "lower")},
              w \in {EMPTY, MALFORMED, Addr("w1", "lower")}}

ResolverInit ==
    /\ BASESCAN_API_KEY \in BOOLEAN
    /\ pool = TRUE
    /\ developers = <<>>
    /\ project_stats = <<>>
    /\ inflight = EmptyBag
    /\ request \in OwnerRequests
    /\ last = [op |-> "init"]

ResolverNext ==
    \/ OwnerValidate
    \/ ResolveMethod1
    \/ ResolveMethod2
    \/ ResolveMethod3

ResolverSpec == ResolverInit /\ [][ResolverNext]_vars

\* the event loop runs a continuation once the promise it awaits has settled
ResolverFairSpec ==
    /\ ResolverSpec
    /\ WF_vars(OwnerValidate)
    /\ WF_vars(ResolveMethod1)
    /\ WF_vars(ResolveMethod2)
    /\ WF_vars(ResolveMethod3)

\* the steps above compute what GetContractDeployer computes
StepsAgreeWithGetContractDeployer ==
    (last.op = "verify-contract-owner" /\ last.response.status = 200)
        => last.response.resolve =
               GetContractDeployer(last.contractAddress, BASESCAN_API_KEY,
                                   last.r1, last.r2, last.r3)

(***************************************************************************)
(* Text fields of a request body.  trim and the '@' prefix are tables over *)
(* the strings the requests of the model carry.                            *)
(***************************************************************************)
NullText == "<NULL>"      \* SQL NULL in a text column

trim(s) == CASE s = " proj " -> "proj"
             [] s = "  " -> ""
             [] OTHER -> s

startsWithAt(s) == s \in {"@alice", "@bob"}

\* xUsername.startsWith('@') ? xUsername : `@${xUsername}`
formatXUsername(s) ==
    IF startsWithAt(s) THEN s
    ELSE CASE s = "alice" -> "@alice"
           [] s = "bob" -> "@bob"
           [] OTHER -> "@"

\* x && x.trim() ? x.trim() : null
cleanText(s) == IF s # "" /\ trim(s) # "" THEN trim(s) ELSE NullText

\* x && x.trim() ? x.trim().toLowerCase() : null      (no isAddress test)
cleanOptional(a) == IF Truthy(a) THEN toLowerCase(a) ELSE NULL

(***************************************************************************)
(* Table developers                                                        *)
(***************************************************************************)
\* the position of the row of a wallet, 0 when there is none
RECURSIVE FindWallet(_, _, _)
FindWallet(rows, wallet_address, i) ==
    IF i > Len(rows) THEN 0
    ELSE IF rows[i].wallet_address = wallet_address THEN i
    ELSE FindWallet(rows, wallet_address, i + 1)

\* the row INSERT INTO developers stores for a request
NewDeveloper(req) ==
    [wallet_address |-> toLowerCase(req.walletAddress),
     x_username |-> formatXUsername(req.xUsername),
     project_x |-> cleanText(req.projectX),
     github_link |-> cleanText(req.githubLink),
     main_contract |-> toLowerCase(req.mainContract),
     optional_contract_1 |-> cleanOptional(req.optionalContract1),
     optional_contract_2 |-> cleanOptional(req.optionalContract2),
     verification_signature |->
         IF req.verificationSignature # "" THEN req.verificationSignature ELSE NullText,
     is_approved |-> FALSE,
     is_rejected |-> FALSE,
     rejection_reason |-> NullText]

\* the resubmission UPDATE without "rejection_reason = NULL"
Resubmitted_KeepsReason(row, req) ==
    [NewDeveloper(req) EXCEPT !.wallet_address = row.wallet_address,
                              !.rejection_reason = row.rejection_reason]

\* the resubmission UPDATE: every column but wallet_address is overwritten
Resubmitted(row, req) ==
    [NewDeveloper(req) EXCEPT !.wallet_address = row.wallet_address]

(***************************************************************************)
(* POST /api/register                                                      *)
(***************************************************************************)
Response(status, message) == [status |-> status, message |-> message]

RegisterEvent(op, req, deployer, exit, resp, isResubmission) ==
    [op |-> op, req |-> req, deployer |-> deployer, exit |-> exit, response |-> resp,
     isResubmission |-> isResubmission]

\* deployer.toLowerCase() === walletAddress.toLowerCase()
walletMatches(deployer, walletAddress) ==
    toLowerCase(deployer) = toLowerCase(walletAddress)

\* the ownership check of the permissive variant: a request that carries a
\* signature passes although the deployer is another wallet
OwnershipCheck_SignatureOverrides(deployer, req) ==
    IF Truthy(deployer)
    THEN IF ~walletMatches(deployer, req.walletAddress) /\ req.verificationSignature = ""
         THEN Response(403, "Contract ownership verification failed")
         ELSE Response(0, "")
    ELSE Response(403, "Unable to verify contract ownership")

\* the ownership check that lets a request through when no deployer was found
OwnershipCheck_UnknownPasses(deployer, req) ==
    IF Truthy(deployer) /\ ~walletMatches(deployer, req.walletAddress)
    THEN Response(403, "Contract ownership verification failed")
    ELSE Response(0, "")

\* The ownership check: the 403 it answers with, status 0 when it lets the
\* request through.  The verificationSignature of the request is not read.
OwnershipCheck(deployer, req) ==
    IF Truthy(deployer)
    THEN IF ~walletMatches(deployer, req.walletAddress)
         THEN Response(403, "Contract ownership verification failed")
         ELSE Response(0, "")
    ELSE Response(403, "Unable to verify contract ownership")

\* the branch on the row the SELECT found (existing = 0: none)
ExistingCheck(rows, existing) ==
    IF existing > 0 /\ rows[existing].is_approved
    THEN Response(400, "Your profile is already approved")
    ELSE IF existing > 0 /\ ~rows[existing].is_rejected
    THEN Response(400, "Your profile is already pending review")
    ELSE Response(0, "")

\* What the handler does up to and including its SELECT: the response when
\* it returns early, status 0 when it goes on to its UPDATE or INSERT.
RegisterCheck(req, a, key, db, rows) ==
    LET early(resp) == [response |-> resp, deployer |-> NULL,
                        exit |-> "not_called", existing |-> 0]
    IN  IF ~db
        THEN early(Response(503, "Database not available"))
        ELSE IF ~Truthy(req.walletAddress) \/ req.xUsername = "" \/ ~Truthy(req.mainContract)
        THEN early(Response(400, "Missing required fields"))
        ELSE IF ~isAddress(req.walletAddress)
        THEN early(Response(400, "Invalid wallet address"))
        ELSE IF ~isAddress(req.mainContract)
        THEN early(Response(400, "Invalid main contract address"))
        ELSE LET res == GetContractDeployer(req.mainContract, key, a.r1, a.r2, a.r3)
                 owner == OwnershipCheck(res.deployer, req)
                 existing == FindWallet(rows, toLowerCase(req.walletAddress), 1)
             IN  IF owner.status # 0
                 THEN [response |-> owner, deployer |-> res.deployer,
                       exit |-> res.exit, existing |-> 0]
                 ELSE [response |-> ExistingCheck(rows, existing), deployer |-> res.deployer,
                       exit |-> res.exit, existing |-> existing]

\* validation, ownership check and SELECT of existing; the early returns
RegisterStart(req, a) ==
    LET chk == RegisterCheck(req, a, BASESCAN_API_KEY, pool, developers)
        ev == RegisterEvent("register", req, chk.deployer, chk.exit, chk.response,
                            chk.response.status = 0 /\ chk.existing > 0)
    IN  /\ IF chk.response.status # 0
           THEN /\ last' = ev
                /\ UNCHANGED inflight
           ELSE /\ BagCardinality(inflight) < MaxInflight
                /\ last' = [ev EXCEPT !.op = "register:select"]
                /\ inflight' = inflight (+) SetToBag({
                       [op |-> "register", req |-> req, deployer |-> chk.deployer,
                        isResubmission |-> (chk.existing > 0), submissionId |-> 0]})
        /\ UNCHANGED <<BASESCAN_API_KEY, pool, developers, project_stats>>

\* a register request with body req that meets the upstream answers a
RegisterSelect(req, a) ==
    /\ NoneOnWire
    /\ RegisterStart(req, a)
    /\ UNCHANGED request

\* the register request on the wire
RegisterReceived ==
    /\ request.op = "register"
    /\ RegisterStart(request.body, request)
    /\ request' = NoRequest

\* INSERT INTO developers on a table without the UNIQUE constraint
InsertDeveloper_NoUnique(rows, row) ==
    [rows |-> Append(rows, row), thrown |-> FALSE]

\* INSERT INTO developers: wallet_address is UNIQUE, a second row for the
\* wallet makes the query throw and the table stays as it is
InsertDeveloper(rows, row) ==
    IF FindWallet(rows, row.wallet_address, 1) = 0
    THEN [rows |-> Append(rows, row), thrown |-> FALSE]
    ELSE [rows |-> rows, thrown |-> TRUE]

\* UPDATE developers SET ... WHERE wallet_address = $8
UpdateDeveloper(rows, req) ==
    LET i == FindWallet(rows, toLowerCase(req.walletAddress), 1)
    IN  IF i = 0 THEN rows ELSE [rows EXCEPT ![i] = Resubmitted(rows[i], req)]

\* the UPDATE of a resubmission or the INSERT of a first registration
RegisterWrite(w) ==
    LET req == w.req
        ins == InsertDeveloper(developers, NewDeveloper(req))
        ev(resp) == RegisterEvent("register", req, w.deployer, "write", resp,
                                  w.isResubmission)
    IN  /\ BagIn(w, inflight)
        /\ w.op = "register"
        /\ inflight' = inflight (-) SetToBag({w})
        /\ IF w.isResubmission
           THEN /\ developers' = UpdateDeveloper(developers, req)
                /\ last' = ev(Response(200, "Profile resubmitted successfully"))
           ELSE IF ~ins.thrown
           THEN /\ developers' = ins.rows
                /\ last' = ev(Response(200, "Profile submitted successfully"))
           ELSE \* the catch of the handler answers 500
                /\ UNCHANGED developers
                /\ last' = ev(Response(500, "Error registering developer"))
        /\ UNCHANGED <<BASESCAN_API_KEY, pool, project_stats, request>>

(***************************************************************************)
(* POST /api/approve and POST /api/reject                                  *)
(***************************************************************************)
ADMIN_WALLET == Addr("admin", "lower")

NoRank == 0     \* rank_tx / rank_unique before the first ranking (SQL NULL)

\* the body of no request, for the waiting handlers that carry none
NoBody ==
    [walletAddress |-> EMPTY, xUsername |-> "", projectX |-> "", githubLink |-> "",
     mainContract |-> EMPTY, optionalContract1 |-> EMPTY, optionalContract2 |-> EMPTY,
     verificationSignature |-> ""]

\* the row INSERT INTO project_stats (wallet_address, main_contract) stores
NewStats(wallet_address, main_contract) ==
    [wallet_address |-> wallet_address, main_contract |-> main_contract,
     total_transactions |-> 0, transactions_last_12h |-> 0,
     unique_wallets |-> 0, wallets_last_12h |-> 0, growth_rate |-> 0,
     rank_tx |-> NoRank, rank_unique |-> NoRank]

AdminEvent(op, header, submissionId, resp) ==
    [op |-> op, header |-> header, submissionId |-> submissionId, response |-> resp]

\* a check that lets a request without the header through
AdminDenied_AbsentPasses(header) == header # EMPTY /\ toLowerCase(header) # ADMIN_WALLET

\* req.headers['x-admin-wallet']?.toLowerCase() !== ADMIN_WALLET
AdminDenied(header) == toLowerCase(header) # ADMIN_WALLET

\* an UPDATE that sets is_approved only
ApprovedRows_KeepsRejected(rows, submissionId) ==
    IF submissionId \in 1..Len(rows)
    THEN [rows EXCEPT ![submissionId].is_approved = TRUE]
    ELSE rows

\* UPDATE developers SET is_approved = TRUE, is_rejected = FALSE WHERE id = $1
ApprovedRows(rows, submissionId) ==
    IF submissionId \in 1..Len(rows)
    THEN [rows EXCEPT ![submissionId].is_approved = TRUE,
                      ![submissionId].is_rejected = FALSE]
    ELSE rows

\* UPDATE developers SET is_approved = FALSE, is_rejected = TRUE,
\*                       rejection_reason = $1 WHERE id = $2
RejectedRows(rows, submissionId, reason) ==
    IF submissionId \in 1..Len(rows)
    THEN [rows EXCEPT ![submissionId].is_approved = FALSE,
                      ![submissionId].is_rejected = TRUE,
                      ![submissionId].rejection_reason =
                          IF reason # "" THEN reason ELSE NullText]
    ELSE rows

\* admin check, submissionId check and the UPDATE of /api/approve
ApproveUpdate(header, submissionId) ==
    /\ NoneOnWire
    /\ IF AdminDenied(header)
       THEN /\ last' = AdminEvent("approve", header, submissionId,
                                  Response(403, "Admin access required"))
            /\ UNCHANGED <<developers, inflight>>
       ELSE IF submissionId = 0
       THEN /\ last' = AdminEvent("approve", header, submissionId,
                                  Response(400, "Missing submissionId"))
            /\ UNCHANGED <<developers, inflight>>
       ELSE IF ~pool
       THEN \* pool is null: pool.query throws, the catch answers 500
            /\ last' = AdminEvent("approve", header, submissionId,
                                  Response(500, "Error approving submission"))
            /\ UNCHANGED <<developers, inflight>>
       ELSE /\ BagCardinality(inflight) < MaxInflight
            /\ developers' = ApprovedRows(developers, submissionId)
            /\ inflight' = inflight (+) SetToBag({
                   [op |-> "approve", req |-> NoBody, deployer |-> NULL,
                    isResubmission |-> FALSE, submissionId |-> submissionId]})
            /\ last' = AdminEvent("approve:update", header, submissionId, Response(0, ""))
    /\ UNCHANGED <<BASESCAN_API_KEY, pool, project_stats, request>>

\* an approval that ends with its SELECT by id
ApproveStats_NoInsert(w) ==
    /\ BagIn(w, inflight)
    /\ w.op = "approve"
    /\ inflight' = inflight (-) SetToBag({w})
    /\ last' = AdminEvent("approve", ADMIN_WALLET, w.submissionId,
                          Response(200, "Submission approved successfully"))
    /\ UNCHANGED <<BASESCAN_API_KEY, pool, developers, project_stats, request>>

\* an approval whose INSERT is ON CONFLICT (wallet_address) DO UPDATE: the
\* stats row of the wallet starts again
ApproveStats_ResetsStats(w) ==
    LET id == w.submissionId
        found == id \in 1..Len(developers)
        wallet_address == developers[id].wallet_address
        j == FindWallet(project_stats, wallet_address, 1)
        new == NewStats(wallet_address, developers[id].main_contract)
    IN  /\ BagIn(w, inflight)
        /\ w.op = "approve"
        /\ inflight' = inflight (-) SetToBag({w})
        /\ IF found /\ j = 0 THEN project_stats' = Append(project_stats, new)
           ELSE IF found THEN project_stats' = [project_stats EXCEPT ![j] = new]
           ELSE UNCHANGED project_stats
        /\ last' = AdminEvent("approve", ADMIN_WALLET, id,
                              Response(200, "Submission approved successfully"))
        /\ UNCHANGED <<BASESCAN_API_KEY, pool, developers, request>>

\* the SELECT by id of /api/approve and its INSERT INTO project_stats
\* ... ON CONFLICT (wallet_address) DO NOTHING
ApproveStats(w) ==
    LET id == w.submissionId
        found == id \in 1..Len(developers)
        wallet_address == developers[id].wallet_address
    IN  /\ BagIn(w, inflight)
        /\ w.op = "approve"
        /\ inflight' = inflight (-) SetToBag({w})
        /\ IF found /\ FindWallet(project_stats, wallet_address, 1) = 0
           THEN project_stats' = Append(project_stats,
                                        NewStats(wallet_address, developers[id].main_contract))
           ELSE UNCHANGED project_stats
        /\ last' = AdminEvent("approve", ADMIN_WALLET, id,
                              Response(200, "Submission approved successfully"))
        /\ UNCHANGED <<BASESCAN_API_KEY, pool, developers, request>>

\* /api/reject: admin check, submissionId check, one UPDATE
Reject(header, submissionId, reason) ==
    /\ NoneOnWire
    /\ IF AdminDenied(header)
       THEN /\ last' = AdminEvent("reject", header, submissionId,
                                  Response(403, "Admin access required"))
            /\ UNCHANGED developers
       ELSE IF submissionId = 0
       THEN /\ last' = AdminEvent("reject", header, submissionId,
                                  Response(400, "Missing submissionId"))
            /\ UNCHANGED developers
       ELSE IF ~pool
       THEN /\ last' = AdminEvent("reject", header, submissionId,
                                  Response(500, "Error rejecting submission"))
            /\ UNCHANGED developers
       ELSE /\ developers' = RejectedRows(developers, submissionId, reason)
            /\ last' = AdminEvent("reject", header, submissionId,
                                  Response(200, "Submission rejected"))
    /\ UNCHANGED <<BASESCAN_API_KEY, pool, project_stats, inflight, request>>

(***************************************************************************)
(* Specification of the registration gate: register, approve and reject    *)
(* requests of two wallets and the admin, in any interleaving.             *)
(***************************************************************************)
\* the two bodies the wallet submits: they differ in every field, and the
\* wallet address is spelled in lower case in one and in mixed case in the other
GateBodies ==
    {[walletAddress |-> Addr("w1", "lower"), mainContract |-> Addr("c1", "lower"),
      xUsername |-> "alice", projectX |-> " proj ", githubLink |-> "",
      optionalContract1 |-> Addr("c2", "mixed"), optionalContract2 |-> EMPTY,
      verificationSignature |-> ""],
     [walletAddress |-> Addr("w1", "mixed"), mainContract |-> Addr("c2", "mixed"),
      xUsername |-> "@bob", projectX |-> "  ", githubLink |-> "gh",
      optionalContract1 |-> EMPTY, optionalContract2 |-> MALFORMED,
      verificationSignature |-> "0xsig"]}

\* requests that pass no further than the validation
InvalidBodies ==
    LET b == CHOOSE x \in GateBodies : x.xUsername = "alice"
    IN  {[b EXCEPT !.walletAddress = EMPTY],
         [b EXCEPT !.walletAddress = MALFORMED],
         [b EXCEPT !.mainContract = MALFORMED],
         [b EXCEPT !.xUsername = ""]}

NotOk == [status |-> "0", message |-> "NOTOK", result |-> <<>>]

\* one answer of the upstreams for each way the resolver can end:
\* a creation transaction in the list, the creation endpoint, bytecode
\* without a deployer, no bytecode
GateAnswers(c) ==
    {a \in Answers(c, 1) :
        \/ /\ a.r1.status = "1" /\ a.r2.status = "throw" /\ a.r3 = "throw"
           /\ a.r1.result[1].to = EMPTY /\ a.r1.result[1].from.cs = "mixed"
           /\ a.creator = Addr("w1", "lower")
        \/ /\ a.r1 = NotOk /\ a.r2.status = "1" /\ a.r3 = "throw"
           /\ a.r2.contractCreator.cs = "mixed"
        \/ /\ a.r1 = NotOk /\ a.r2.status = "0" /\ a.r3 # "throw"
           /\ a.creator # Addr("w2", "lower")}

SubmissionIds == 0 .. 2      \* 0: no submissionId in the body; 2: no such row
Reasons == {"", "spam"}

\* x-admin-wallet header and submissionId of the admin requests: the admin
\* wallet with every id, and for one id the admin wallet in mixed case,
\* another wallet and no header
AdminRequests ==
    {[header |-> ADMIN_WALLET, submissionId |-> id] : id \in SubmissionIds}
    \cup {[header |-> h, submissionId |-> 1] :
              h \in {Addr("admin", "mixed"), Addr("w1", "lower"), EMPTY}}

Init ==
    /\ BASESCAN_API_KEY \in BOOLEAN
    /\ pool \in BOOLEAN
    /\ developers = <<>>
    /\ project_stats = <<>>
    /\ inflight = EmptyBag
    /\ request = NoRequest
    /\ last = [op |-> "init"]

Next ==
    \/ \E b \in GateBodies : \E a \in GateAnswers(b.mainContract) : RegisterSelect(b, a)
    \/ \E b \in InvalidBodies : RegisterSelect(b, NoAnswers)
    \/ \E w \in BagToSet(inflight) : RegisterWrite(w)
    \/ \E r \in AdminRequests : ApproveUpdate(r.header, r.submissionId)
    \/ \E w \in BagToSet(inflight) : ApproveStats(w)
    \/ \E r \in AdminRequests, reason \in Reasons :
           Reject(r.header, r.submissionId, reason)

Spec == Init /\ [][Next]_vars

(***************************************************************************)
(* Properties of the registration gate (Spec)                              *)
(***************************************************************************)
Status(row) ==
    IF row.is_approved THEN "approved"
    ELSE IF row.is_rejected THEN "rejected"
    ELSE "pending"

\* the rows of a wallet, whatever the spelling of the address
RowsOf(rows, walletAddress) ==
    {i \in 1..Len(rows) : toLowerCase(rows[i].wallet_address) = toLowerCase(walletAddress)}

\* the step just taken belongs to /api/register
RegisterStep(ev) == ev.op \in {"register", "register:select"}

\* the request passes the validation of /api/register
ValidBody(req) ==
    isAddress(req.walletAddress) /\ isAddress(req.mainContract) /\ req.xUsername # ""

\* the resolver named a deployer and it is not the wallet of the request
DeployerDiffers(ev) ==
    Truthy(ev.deployer) /\ toLowerCase(ev.deployer) # toLowerCase(ev.req.walletAddress)

DeployerIsWallet(ev) ==
    Truthy(ev.deployer) /\ toLowerCase(ev.deployer) = toLowerCase(ev.req.walletAddress)

C2_ApprovedIsTerminal ==
    [][\A i \in 1..Len(developers) :
           developers[i].is_approved
               => (i <= Len(developers') /\ developers'[i].is_approved)]_vars

\* C3: never two rows for one wallet (addresses compared without case and
\* stored in lower case), also when two register requests of the wallet
\* interleave; and no step removes a row or gives it to another wallet.
C3_OneRowPerWallet ==
    /\ [](\A i \in 1..Len(developers) :
              /\ developers[i].wallet_address = toLowerCase(developers[i].wallet_address)
              /\ RowsOf(developers, developers[i].wallet_address) = {i})
    /\ [][/\ Len(developers') >= Len(developers)
          /\ \A i \in 1..Len(developers) :
                 developers'[i].wallet_address = developers[i].wallet_address]_vars

\* two register requests of one wallet both found no row; the second INSERT threw
C3_Witness ==
    /\ last.op = "register"
    /\ last.exit = "write"
    /\ ~last.isResubmission
    /\ last.response.status = 500
    /\ Len(developers) = 1

\* C4: a step of a valid register request taken while the row of its wallet
\* is approved leaves the row as it is and answers "already approved",
\* whatever the resolver says about the submitted contract.
C4_ApprovedAlwaysAlreadyApproved ==
    [][(/\ RegisterStep(last')
        /\ ValidBody(last'.req)
        /\ \E i \in RowsOf(developers, last'.req.walletAddress) :
               developers[i].is_approved)
           => /\ developers' = developers
              /\ last'.response = Response(400, "Your profile is already approved")]_vars

\* the row a resubmission must leave behind
ResubmittedRow(row, req) ==
    /\ Status(row) = "pending"
    /\ row.rejection_reason = NullText
    /\ row.wallet_address = toLowerCase(req.walletAddress)
    /\ row.main_contract = toLowerCase(req.mainContract)
    /\ row.x_username = formatXUsername(req.xUsername)
    /\ row.project_x = cleanText(req.projectX)
    /\ row.github_link = cleanText(req.githubLink)
    /\ row.optional_contract_1 = cleanOptional(req.optionalContract1)
    /\ row.optional_contract_2 = cleanOptional(req.optionalContract2)
    /\ row.verification_signature =
           (IF req.verificationSignature = "" THEN NullText ELSE req.verificationSignature)

\* C5: a register request of a wallet whose row is rejected, with the wallet
\* as resolved deployer, goes on as a resubmission; once its UPDATE is done
\* the wallet has exactly one row, pending, without rejection reason, with
\* the columns of this request, and the answer is 200 with isResubmission.
C5_ResubmissionResetsRow ==
    [][(RegisterStep(last') /\ ValidBody(last'.req) /\ DeployerIsWallet(last'))
           => /\ (/\ last'.exit # "write"
                  /\ \E i \in RowsOf(developers, last'.req.walletAddress) :
                         Status(developers[i]) = "rejected")
                     => (last'.op = "register:select" /\ last'.isResubmission)
              /\ (last'.exit = "write" /\ last'.isResubmission)
                     => /\ last'.response.status = 200
                        /\ Cardinality(RowsOf(developers', last'.req.walletAddress)) = 1
                        /\ \A i \in RowsOf(developers', last'.req.walletAddress) :
                               ResubmittedRow(developers'[i], last'.req)]_vars

\* a rejected row with a reason was resubmitted with the other body
C5_Witness ==
    /\ last.op = "register"
    /\ last.exit = "write"
    /\ last.isResubmission
    /\ last.req.xUsername = "@bob"
    /\ last.req.walletAddress.cs = "mixed"
    /\ Len(developers) = 1
    /\ developers[1].x_username = "@bob"

OwnerAnswered ==
    /\ last.op = "verify-contract-owner"
    /\ isAddress(last.contractAddress)
    /\ isAddress(last.walletAddress)

\* what a response of /api/verify-contract-owner tells its caller
ResponseSays(resp, outcome) ==
    CASE outcome = "DeployerMatch" ->
             resp.status = 200 /\ Truthy(resp.deployerAddress) /\ resp.deployerMatches
      [] outcome = "DeployerMismatch" ->
             resp.status = 200 /\ Truthy(resp.deployerAddress) /\ ~resp.deployerMatches
      [] outcome = "DeployerUnknown" ->
             /\ resp.status = 200 /\ ~Truthy(resp.deployerAddress)
             /\ ~resp.deployerMatches /\ resp.requiresSignature
      [] outcome = "ContractNotFound" ->
             resp.status # 200 /\ resp.message = "Contract not found"

Outcomes == {"DeployerMatch", "DeployerMismatch", "DeployerUnknown", "ContractNotFound"}

\* C7: a request with two well-formed addresses is answered, whatever the
\* explorer and the node answer (lists, empty results, rate limit, thrown
\* errors), and the answer tells exactly one of the four outcomes.
C7_ResolveIsTotal ==
    /\ [](OwnerAnswered
              => Cardinality({o \in Outcomes : ResponseSays(last.response, o)}) = 1)
    /\ (request.op = "verify-contract-owner") ~> (last.op = "verify-contract-owner")

\* all three upstream calls failed and the request was still answered
C7_Witness ==
    /\ OwnerAnswered
    /\ last.r1.status = "throw"
    /\ last.r2.status = "throw"
    /\ last.r3 = "throw"
    /\ last.response.resolve.calls = <<"txlist", "getcontractcreation", "getCode">>
    /\ ResponseSays(last.response, "DeployerUnknown")

\* C8: when getCode finds no bytecode the answer is not the one given for
\* bytecode without a known deployer (DeployerUnknown): it is the failure
\* ContractNotFound.
C8_NoBytecodeIsNotUnknown ==
    (OwnerAnswered /\ last.response.resolve.exit = "no_code")
        => /\ ~ResponseSays(last.response, "DeployerUnknown")
           /\ ResponseSays(last.response, "ContractNotFound")

\* the creation test of the transaction-list scan, as the specification words it
CreationTest(tx, target) ==
    \/ ~Truthy(tx.to)
    \/ toLowerCase(tx.contractAddress) = toLowerCase(target)
    \/ toLowerCase(tx.from) # toLowerCase(target)

LeastOf(S) == CHOOSE i \in S : \A j \in S : i <= j

\* the sender of the first transaction that passes the test, else of the first
CandidateDeployer(txs, target) ==
    LET passing == {i \in 1..Len(txs) : CreationTest(txs[i], target)}
    IN  IF passing # {} THEN txs[LeastOf(passing)].from ELSE txs[1].from

\* C9: with a non-empty transaction list the answer carries the candidate
\* deployer of the list, in lower case, and deployerMatches says whether the
\* claimant is that address, compared without case.
C9_DeployerFromTransactionList ==
    (OwnerAnswered /\ BASESCAN_API_KEY /\ last.r1.status = "1" /\ Len(last.r1.result) > 0)
        => LET d == CandidateDeployer(last.r1.result, last.contractAddress)
           IN  /\ last.response.status = 200
               /\ last.response.deployerAddress = Addr(d.id, "lower")
               /\ last.response.deployerMatches = (d.id = last.walletAddress.id)
               /\ ResponseSays(last.response,
                               IF d.id = last.walletAddress.id THEN "DeployerMatch"
                               ELSE "DeployerMismatch")

\* the first transaction is sent by the address itself, the second one passes
\* the test; the claimant is another wallet
C9_Witness ==
    /\ OwnerAnswered
    /\ last.r1.status = "1"
    /\ Len(last.r1.result) = 2
    /\ last.r1.result[1].from.id = last.contractAddress.id
    /\ last.r1.result[2].from.id = "w2"
    /\ last.walletAddress.id = "w1"
    /\ last.response.deployerAddress = Addr("w2", "lower")
    /\ ~last.response.deployerMatches

\* C10: an address reported as deployer is the originator of the creation
\* transaction of the contract.
C10_DeployerIsCreator ==
    (OwnerAnswered /\ Truthy(last.response.deployerAddress))
        => last.response.deployerAddress = toLowerCase(last.creator)

(***************************************************************************)
(* POST /api/verify-signature.  A message is the template of the front end *)
(* for some contract address, or any other text.  A signature is the bytes *)
(* sent (raw), and what they are: ill-formed, or the signature of one      *)
(* wallet over one message.                                                *)
(***************************************************************************)
\* `I am the owner of contract ${contractAddress}. Signing to verify ownership for BuilderHub.`
Template(contractAddress) == [kind |-> "template", contract |-> contractAddress]
OtherText == [kind |-> "text", contract |-> EMPTY]
NoMessage == [kind |-> "", contract |-> EMPTY]

Signed(signer, message) ==
    [raw |-> "0xsig", format |-> "ok", signer |-> signer, signed |-> message]
BadSignature == [raw |-> "0xbad", format |-> "bad", signer |-> "", signed |-> NoMessage]
NoSignature == [raw |-> "", format |-> "", signer |-> "", signed |-> NoMessage]

\* ethers.utils.verifyMessage: throws on bytes that are no signature;
\* recovers the checksummed address of the signer when the message is the
\* one that was signed, and the address of a key nobody holds otherwise
verifyMessage(message, signature) ==
    IF signature.format # "ok"
    THEN [thrown |-> TRUE, address |-> NULL]
    ELSE IF signature.signed = message
    THEN [thrown |-> FALSE, address |-> Addr(signature.signer, "mixed")]
    ELSE [thrown |-> FALSE, address |-> Addr("nobody", "mixed")]

SignatureResponse(status, success, verified, message) ==
    [status |-> status, success |-> success, verified |-> verified, message |-> message]

\* the early returns of the handler; status 0 when it goes on to the resolver
SignatureCheck_RecoveryErrorIgnored(req) ==
    IF \/ ~Truthy(req.contractAddress) \/ ~Truthy(req.walletAddress)
       \/ req.message = NoMessage \/ req.signature = NoSignature
    THEN SignatureResponse(400, FALSE, FALSE, "Missing required fields")
    ELSE IF ~match(req.contractAddress) \/ ~match(req.walletAddress)
    THEN SignatureResponse(400, FALSE, FALSE, "Invalid address format")
    ELSE SignatureResponse(0, FALSE, FALSE, "")

SignatureCheck(req) ==
    IF \/ ~Truthy(req.contractAddress) \/ ~Truthy(req.walletAddress)
       \/ req.message = NoMessage \/ req.signature = NoSignature
    THEN SignatureResponse(400, FALSE, FALSE, "Missing required fields")
    ELSE IF ~match(req.contractAddress) \/ ~match(req.walletAddress)
    THEN SignatureResponse(400, FALSE, FALSE, "Invalid address format")
    ELSE IF verifyMessage(req.message, req.signature).thrown
    THEN SignatureResponse(400, FALSE, FALSE, "Invalid signature format")
    ELSE SignatureResponse(0, FALSE, FALSE, "")

\* the comparison of the older server: always against the connected wallet
SignatureVerified_WalletOnly(recoveredAddress, deployer, walletAddress) ==
    toLowerCase(recoveredAddress) = toLowerCase(walletAddress)

\* verified: against the deployer when one was found, else against the wallet
SignatureVerified(recoveredAddress, deployer, walletAddress) ==
    IF Truthy(deployer)
    THEN toLowerCase(recoveredAddress) = toLowerCase(deployer)
    ELSE toLowerCase(recoveredAddress) = toLowerCase(walletAddress)

\* the body of the 200 response
SignatureResult(verified, deployer) ==
    SignatureResponse(200, TRUE, verified,
        IF verified THEN "Signature verified successfully"
        ELSE IF Truthy(deployer)
        THEN "Signature verification failed: The signer address does not match the contract deployer"
        ELSE "Signature verification failed: The signer address does not match your connected wallet")

SignatureEvent(recoveredAddress, res, resp) ==
    [op |-> "verify-signature",
     contractAddress |-> request.contractAddress,
     walletAddress |-> request.walletAddress,
     message |-> request.message, signature |-> request.signature,
     recoveredAddress |-> recoveredAddress, resolve |-> res, response |-> resp]

\* validation and recovery of the signer, up to the call of the resolver
SignatureReceived ==
    /\ request.op = "verify-signature"
    /\ request.pc = "received"
    /\ LET chk == SignatureCheck(request)
       IN  IF chk.status # 0
           THEN /\ last' = SignatureEvent(NULL, NoResolve, chk)
                /\ request' = NoRequest
           ELSE /\ request' = [request EXCEPT !.pc = "resolve"]
                /\ UNCHANGED last
    /\ UNCHANGED <<BASESCAN_API_KEY, pool, developers, project_stats, inflight>>

\* getContractDeployer has returned: the comparison, and the response when
\* nothing is to be saved
SignatureResolved ==
    /\ request.op = "verify-signature"
    /\ request.pc = "resolve"
    /\ LET recoveredAddress == verifyMessage(request.message, request.signature).address
           res == GetContractDeployer(request.contractAddress, BASESCAN_API_KEY,
                                      request.r1, request.r2, request.r3)
           verified == SignatureVerified(recoveredAddress, res.deployer,
                                         request.walletAddress)
       IN  IF verified /\ pool
           THEN /\ request' = [request EXCEPT !.pc = "save"]
                /\ UNCHANGED last
           ELSE /\ last' = SignatureEvent(recoveredAddress, res,
                                          SignatureResult(verified, res.deployer))
                /\ request' = NoRequest
    /\ UNCHANGED <<BASESCAN_API_KEY, pool, developers, project_stats, inflight>>

\* UPDATE developers SET verification_signature = $1 WHERE wallet_address = $2
SignedRows(rows, signature, walletAddress) ==
    LET i == FindWallet(rows, toLowerCase(walletAddress), 1)
    IN  IF i = 0 THEN rows
        ELSE [rows EXCEPT ![i].verification_signature = signature.raw]

\* the UPDATE of a verified signature and the response
SignatureSaved ==
    /\ request.op = "verify-signature"
    /\ request.pc = "save"
    /\ LET recoveredAddress == verifyMessage(request.message, request.signature).address
           res == GetContractDeployer(request.contractAddress, BASESCAN_API_KEY,
                                      request.r1, request.r2, request.r3)
       IN  /\ developers' = SignedRows(developers, request.signature, request.walletAddress)
           /\ last' = SignatureEvent(recoveredAddress, res,
                                     SignatureResult(TRUE, res.deployer))
           /\ request' = NoRequest
    /\ UNCHANGED <<BASESCAN_API_KEY, pool, project_stats, inflight>>

(***************************************************************************)
(* Specification of one request: a register, a verify-contract-owner or a  *)
(* verify-signature request with well-formed, ill-formed and missing       *)
(* inputs, on a table that holds the row of a wallet or none.              *)
(***************************************************************************)
\* the answers of the upstreams, one for each way the resolver can end
RequestAnswers == GateAnswers(Addr("c1", "lower"))

\* the addresses a request spells: with the prefix, without it, no address
RequestContracts == {Addr("c1", "lower"), Addr("c1", "mixed")}
RequestWallets == {Addr("w1", "lower"), Addr("w2", "mixed")}
IllFormed == {MALFORMED, NoPrefix("c1"), NoPrefix("w1")}

SignatureRequest(contractAddress, walletAddress, message, signature, a) ==
    [op |-> "verify-signature", pc |-> "received", calls |-> <<>>,
     contractAddress |-> contractAddress, walletAddress |-> walletAddress,
     message |-> message, signature |-> signature,
     creator |-> a.creator, r1 |-> a.r1, r2 |-> a.r2, r3 |-> a.r3]

Messages(contractAddress) ==
    {Template(contractAddress), Template(Addr("c2", "lower")), OtherText}

Signatures(contractAddress) ==
    {Signed(w, m) : w \in WalletIds, m \in Messages(contractAddress)}
    \cup {BadSignature}

SignatureRequests ==
    {SignatureRequest(c, w, m, sig, a) :
         c \in RequestContracts, w \in RequestWallets,
         m \in Messages(Addr("c1", "lower")) \cup Messages(Addr("c1", "mixed")),
         sig \in Signatures(Addr("c1", "lower")) \cup Signatures(Addr("c1", "mixed")),
         a \in RequestAnswers}
    \cup {SignatureRequest(c, w, OtherText, sig, a) :
              c \in IllFormed \cup {EMPTY, Addr("c1", "lower")},
              w \in IllFormed \cup {EMPTY, Addr("w1", "lower")},
              sig \in {Signed("w1", OtherText), BadSignature, NoSignature},
              a \in RequestAnswers}
    \cup {SignatureRequest(Addr("c1", "lower"), Addr("w1", "lower"), NoMessage,
                           Signed("w1", NoMessage), a) : a \in RequestAnswers}

RegisterRequest(body, a) ==
    [op |-> "register", pc |-> "received", calls |-> <<>>, body |-> body,
     creator |-> a.creator, r1 |-> a.r1, r2 |-> a.r2, r3 |-> a.r3]

RegisterRequests ==
    LET b == CHOOSE x \in GateBodies : x.xUsername = "alice"
    IN  {RegisterRequest([b EXCEPT !.walletAddress = w, !.mainContract = c, !.xUsername = x], a) :
             w \in IllFormed \cup {EMPTY, Addr("w1", "lower")},
             c \in IllFormed \cup {EMPTY, Addr("c1", "lower")},
             x \in {"alice", ""},
             a \in RequestAnswers}

RequestOwnerRequests ==
    {OwnerRequest(c, w, a) :
         c \in IllFormed \cup {EMPTY, Addr("c1", "lower")},
         w \in IllFormed \cup {EMPTY, Addr("w1", "lower")},
         a \in RequestAnswers}

\* the table before the request: empty, or the pending row of wallet w1
RequestTables ==
    {<<>>, <<NewDeveloper(CHOOSE x \in GateBodies : x.xUsername = "alice")>>}

RequestInit ==
    /\ BASESCAN_API_KEY \in BOOLEAN
    /\ pool \in BOOLEAN
    /\ developers \in RequestTables
    /\ project_stats = <<>>
    /\ inflight = EmptyBag
    /\ request \in SignatureRequests \cup RegisterRequests \cup RequestOwnerRequests
    /\ last = [op |-> "init"]

RequestNext ==
    \/ SignatureReceived
    \/ SignatureResolved
    \/ SignatureSaved
    \/ RegisterReceived
    \/ \E w \in BagToSet(inflight) : RegisterWrite(w)
    \/ OwnerValidate
    \/ ResolveMethod1
    \/ ResolveMethod2
    \/ ResolveMethod3

RequestSpec == RequestInit /\ [][RequestNext]_vars

(***************************************************************************)
(* Properties of single requests (RequestSpec)                             *)
(***************************************************************************)
\* 0x followed by 40 hex digits
WellFormed(a) == a.cs \in {"lower", "mixed"} /\ a.id \notin {"", "null"}

RequestOps == {"register", "register:select", "verify-contract-owner", "verify-signature"}

\* the contract address and the wallet address a request carried
AddressInputs(ev) ==
    IF RegisterStep(ev) THEN {ev.req.mainContract, ev.req.walletAddress}
    ELSE {ev.contractAddress, ev.walletAddress}

\* every required field of the request is there and the database is up
RequestComplete(ev) ==
    /\ \A a \in AddressInputs(ev) : Truthy(a)
    /\ RegisterStep(ev) => (ev.req.xUsername # "" /\ pool)
    /\ ev.op = "verify-signature" => (ev.message # NoMessage /\ ev.signature # NoSignature)

\* the handler of the request called the explorer or the node
CallsMade(ev) ==
    IF RegisterStep(ev) THEN ev.exit # "not_called"
    ELSE IF ev.op = "verify-signature" THEN ev.resolve.calls # <<>>
    ELSE ev.response.resolve.calls # <<>>

InvalidAddressMessages ==
    {"Invalid wallet address", "Invalid main contract address",
     "Invalid contract address format", "Invalid wallet address format",
     "Invalid address format"}

\* C11: a register, verify-contract-owner or verify-signature request that
\* carries an address which is not 0x followed by 40 hex digits is answered
\* 400 with an invalid-address message, and its handler has called neither
\* the explorer nor the node.
C11_MalformedNeverReachesNetwork ==
    (/\ last.op \in RequestOps
     /\ RequestComplete(last)
     /\ \E a \in AddressInputs(last) : ~WellFormed(a))
        => /\ last.response.status = 400
           /\ last.response.message \in InvalidAddressMessages
           /\ ~CallsMade(last)

\* the address a verify-signature request is compared with
ExpectedSigner(ev) ==
    IF Truthy(ev.resolve.deployer) THEN ev.resolve.deployer ELSE ev.walletAddress

\* C12: verify-signature answers verified = true exactly when the recovered
\* address is, without case, the resolved deployer if one was resolved and
\* the claimant wallet if none was; a signature of the claimant wallet is
\* not verified when the resolved deployer is another wallet.
C12_VerifiedIffExpectedSigner ==
    last.op = "verify-signature"
        => /\ last.response.verified
                  <=> /\ last.response.status = 200
                      /\ toLowerCase(last.recoveredAddress) = toLowerCase(ExpectedSigner(last))
           /\ (/\ Truthy(last.resolve.deployer)
               /\ toLowerCase(last.resolve.deployer) # toLowerCase(last.walletAddress)
               /\ last.signature.format = "ok"
               /\ last.signature.signer = last.walletAddress.id)
                  => ~last.response.verified

\* a signature of the deployer is verified for a claimant who is not the deployer
C12_Witness ==
    /\ last.op = "verify-signature"
    /\ last.response.verified
    /\ Truthy(last.resolve.deployer)
    /\ toLowerCase(last.recoveredAddress) = toLowerCase(last.resolve.deployer)
    /\ last.signature.signer # last.walletAddress.id

MismatchMessages ==
    {"Signature verification failed: The signer address does not match the contract deployer",
     "Signature verification failed: The signer address does not match your connected wallet"}

\* C13: when no address can be recovered from the signature of a complete,
\* well-formed verify-signature request, the answer is 400 "Invalid signature
\* format", the resolver was not called and no row changed; when an address
\* is recovered that is not the expected one, the answer is 200 with
\* verified = false and one of the two mismatch messages.
C13_InvalidIsNotMismatch ==
    [][(/\ last' # last
        /\ last'.op = "verify-signature"
        /\ RequestComplete(last')
        /\ \A a \in AddressInputs(last') : WellFormed(a))
           => /\ last'.signature.format = "bad"
                  => /\ last'.response.status = 400
                     /\ ~last'.response.success
                     /\ last'.response.message = "Invalid signature format"
                     /\ last'.response.message \notin MismatchMessages
                     /\ ~CallsMade(last')
                     /\ developers' = developers
              /\ (/\ last'.signature.format = "ok"
                  /\ toLowerCase(last'.recoveredAddress) # toLowerCase(ExpectedSigner(last')))
                  => /\ last'.response.status = 200
                     /\ last'.response.success
                     /\ ~last'.response.verified
                     /\ last'.response.message \in MismatchMessages]_vars

\* an ill-formed signature was answered, on a table that holds the wallet's row
C13_Witness ==
    /\ last.op = "verify-signature"
    /\ last.signature = BadSignature
    /\ last.response.status = 400
    /\ last.response.message = "Invalid signature format"
    /\ WellFormed(last.contractAddress) /\ WellFormed(last.walletAddress)
    /\ Len(developers) = 1
    /\ developers[1].wallet_address = toLowerCase(last.walletAddress)

\* C14: verify-signature reports verified = true only for a signature over
\* the message template filled with the contractAddress of the request.
C14_OnlyTheTemplateIsAccepted ==
    (last.op = "verify-signature" /\ last.response.verified)
        => /\ last.message.kind = "template"
           /\ toLowerCase(last.message.contract) = toLowerCase(last.contractAddress)

(***************************************************************************)
(* updateAllStats: the pass of the cron job over the approved developers,  *)
(* one step per await.  The record of the running pass (its position, the  *)
(* rows it selected, the locals of the loop body) is held in request.      *)
(***************************************************************************)
\* Time is counted in hours: Date.now() and the block timestamps of the
\* transactions are hours since the same origin.
TwelveHours == 12       \* 12 * 60 * 60 seconds

\* a transaction of the list with its block timestamp (parseInt(tx.timeStamp))
StatTx(from, to, timeStamp) == [from |-> from, to |-> to, timeStamp |-> timeStamp]

\* the lists txlist answers with for a contract (sort: 'desc', newest first)
StatsLists(contract) ==
    LET t1 == StatTx(Addr("w1", "lower"), Addr(contract.id, "lower"), 13)
        t2 == StatTx(Addr("w2", "mixed"), Addr(contract.id, "mixed"), 2)
        t3 == StatTx(Addr("w1", "mixed"), EMPTY, 1)
    IN  {<<t1>>, <<t1, t2, t3>>}

\* the answers getContractTransactions can meet
StatsResponses(contract) ==
    {[status |-> "1", message |-> "OK", result |-> l] : l \in StatsLists(contract)}
    \cup {[status |-> "0", message |-> "No transactions found", result |-> <<>>],
          [status |-> "0", message |-> "NOTOK", result |-> <<>>],       \* rate limit
          [status |-> "throw", message |-> "network error", result |-> <<>>], \* axios rejects
          [status |-> "hang", message |-> "", result |-> <<>>]}   \* no answer ever: the
                                    \* request carries no timeout and axios sets none

\* getContractTransactions: the list, [] for every other answer and on a throw
getContractTransactions(response) ==
    IF response.status = "1" THEN response.result ELSE <<>>

\* the filter that leaves out a transaction of exactly twelve hours ago
recentTransactions_After(transactions, twelveHoursAgo) ==
    SelectSeq(transactions, LAMBDA tx : tx.timeStamp > twelveHoursAgo)

\* transactions.filter(tx => parseInt(tx.timeStamp) >= twelveHoursAgo)
recentTransactions(transactions, twelveHoursAgo) ==
    SelectSeq(transactions, LAMBDA tx : tx.timeStamp >= twelveHoursAgo)

calculateUniqueWallets(transactions) ==
    Cardinality(
        {toLowerCase(transactions[k].from) :
             k \in {j \in 1..Len(transactions) : Truthy(transactions[j].from)}}
        \cup {toLowerCase(transactions[k].to) :
                  k \in {j \in 1..Len(transactions) : Truthy(transactions[j].to)}})

\* growthRate as the quotient num / den of two integers
Quotient(num, den) == [num |-> num, den |-> den]

\* the growth rate computed from the new total alone
growthRate_OfNewTotal(prevRows, totalTransactions) ==
    IF Len(prevRows) > 0 /\ totalTransactions > 0
    THEN Quotient((totalTransactions - prevRows[1].total_transactions) * 100,
                  totalTransactions)
    ELSE Quotient(0, 1)

\* let growthRate = 0; if (prevStats.rows.length > 0) { prevTx > 0 ? ... }
growthRate(prevRows, totalTransactions) ==
    IF Len(prevRows) > 0 /\ prevRows[1].total_transactions > 0
    THEN Quotient((totalTransactions - prevRows[1].total_transactions) * 100,
                  prevRows[1].total_transactions)
    ELSE Quotient(0, 1)

\* a number stored in the column growth_rate DECIMAL(10, 2): hundredths,
\* rounded half away from zero
Decimal2(q) ==
    LET a == IF q.num < 0 THEN 0 - q.num ELSE q.num
        h == (2 * a * 100 + q.den) \div (2 * q.den)
    IN  IF q.num < 0 THEN 0 - h ELSE h

\* SELECT wallet_address, main_contract FROM developers WHERE is_approved = TRUE
ApprovedDevelopers(rows) ==
    LET approved == SelectSeq(rows, LAMBDA row : row.is_approved)
    IN  [k \in 1..Len(approved) |->
             [wallet_address |-> approved[k].wallet_address,
              main_contract |-> approved[k].main_contract]]

\* SELECT total_transactions, unique_wallets FROM project_stats WHERE wallet_address = $1
PrevStats(rows, wallet_address) ==
    SelectSeq(rows, LAMBDA row : row.wallet_address = wallet_address)

\* INSERT INTO project_stats ... ON CONFLICT (wallet_address) DO UPDATE SET
\* the five computed columns; the ranks are not touched
\* an upsert that replaces the whole row, as REPLACE INTO would
UpsertStats_ResetsRanks(rows, dev, p) ==
    LET i == FindWallet(rows, dev.wallet_address, 1)
        new == [NewStats(dev.wallet_address, dev.main_contract) EXCEPT
                   !.total_transactions = p.totalTransactions,
                   !.transactions_last_12h = p.transactionsLast12h,
                   !.unique_wallets = p.uniqueWallets,
                   !.wallets_last_12h = p.walletsLast12h,
                   !.growth_rate = Decimal2(p.growthRate)]
    IN  IF i = 0 THEN Append(rows, new) ELSE [rows EXCEPT ![i] = new]

UpsertStats(rows, dev, p) ==
    LET i == FindWallet(rows, dev.wallet_address, 1)
        new == [NewStats(dev.wallet_address, dev.main_contract) EXCEPT
                   !.total_transactions = p.totalTransactions,
                   !.transactions_last_12h = p.transactionsLast12h,
                   !.unique_wallets = p.uniqueWallets,
                   !.wallets_last_12h = p.walletsLast12h,
                   !.growth_rate = Decimal2(p.growthRate)]
    IN  IF i = 0 THEN Append(rows, new)
        ELSE [rows EXCEPT ![i] = [new EXCEPT !.main_contract = rows[i].main_contract,
                                             !.rank_tx = rows[i].rank_tx,
                                             !.rank_unique = rows[i].rank_unique]]

Undefined == [defined |-> FALSE]    \* what an async function without return resolves to

NoResponse == [status |-> "none", message |-> "", result |-> <<>>]

\* no pass is running
Idle ==
    [op |-> "updateAllStats", pc |-> "idle", rows |-> <<>>, i |-> 0,
     fetched |-> NoResponse, twelveHoursAgo |-> 0,
     totalTransactions |-> 0, transactionsLast12h |-> 0,
     uniqueWallets |-> 0, walletsLast12h |-> 0, growthRate |-> Quotient(0, 1),
     failed |-> {}, upserted |-> {},
     before |-> <<>>]    \* history: the ranks when recalculateRankings was called

\* what the pass leaves when updateAllStats returns
PassEvent(r, rankingCalled, rankingCompleted) ==
    [op |-> "updateAllStats", approved |-> Len(r.rows),
     failed |-> r.failed, upserted |-> r.upserted,
     rankingCalled |-> rankingCalled, rankingCompleted |-> rankingCompleted,
     returned |-> Undefined]

\* the pass goes on with the next developer, or with the rankings after the last
\* a loop that is left after its first developer
NextDeveloper_RanksEarly(r) ==
    [Idle EXCEPT !.rows = r.rows, !.failed = r.failed, !.upserted = r.upserted,
                 !.pc = "rank_tx"]

NextDeveloper(r) ==
    LET clean == [Idle EXCEPT !.rows = r.rows, !.failed = r.failed, !.upserted = r.upserted]
    IN  IF r.i < Len(r.rows)
        THEN [clean EXCEPT !.pc = "fetch", !.i = r.i + 1]
        ELSE [clean EXCEPT !.pc = "rank_tx", !.i = 0]

\* a throw in the loop body that ends the pass: no other developer, no ranking
Caught_EndsThePass(r) == Idle

\* the catch of the loop body
Caught(r) == NextDeveloper([r EXCEPT !.failed = r.failed \cup {r.i}])

\* the cron job calls updateAllStats: the SELECT of the approved developers
PassSelect ==
    /\ request.op = "updateAllStats"
    /\ request.pc = "idle"
    /\ IF ~pool
       THEN \* pool is null: pool.query throws into the outer catch
            /\ last' = PassEvent(Idle, FALSE, FALSE)
            /\ UNCHANGED request
       ELSE /\ request' = NextDeveloper([Idle EXCEPT !.rows = ApprovedDevelopers(developers)])
            /\ UNCHANGED last
    /\ UNCHANGED <<BASESCAN_API_KEY, pool, developers, project_stats, inflight>>

\* getContractTransactions and the four counts, now being Date.now();
\* the pass waits for ever on a request that is never answered
PassFetch(now) ==
    /\ request.op = "updateAllStats"
    /\ request.pc = "fetch"
    /\ \E response \in StatsResponses(request.rows[request.i].main_contract) :
           LET transactions == getContractTransactions(response)
               twelveHoursAgo == now - TwelveHours
               recent == recentTransactions(transactions, twelveHoursAgo)
           IN  IF response.status = "hang"
               THEN request' = [request EXCEPT !.pc = "hung", !.fetched = response]
               ELSE request' = [request EXCEPT
                        !.pc = "prev",
                        !.fetched = response,
                        !.twelveHoursAgo = twelveHoursAgo,
                        !.totalTransactions = Len(transactions),
                        !.uniqueWallets = calculateUniqueWallets(transactions),
                        !.transactionsLast12h = Len(recent),
                        !.walletsLast12h = calculateUniqueWallets(recent)]
    /\ UNCHANGED <<BASESCAN_API_KEY, pool, developers, project_stats, inflight, last>>

\* the SELECT of the previous stats and the growth rate
PassPrevStats ==
    /\ request.op = "updateAllStats"
    /\ request.pc = "prev"
    /\ \E thrown \in BOOLEAN :
           IF thrown
           THEN request' = Caught(request)
           ELSE request' = [request EXCEPT
                    !.pc = "upsert",
                    !.growthRate =
                        growthRate(PrevStats(project_stats,
                                             request.rows[request.i].wallet_address),
                                   request.totalTransactions)]
    /\ UNCHANGED <<BASESCAN_API_KEY, pool, developers, project_stats, inflight, last>>

\* the upsert and the delay before the next developer
PassUpsert ==
    /\ request.op = "updateAllStats"
    /\ request.pc = "upsert"
    /\ \E thrown \in BOOLEAN :
           IF thrown
           THEN /\ request' = Caught(request)
                /\ UNCHANGED project_stats
           ELSE /\ project_stats' = UpsertStats(project_stats, request.rows[request.i], request)
                /\ request' = NextDeveloper(
                       [request EXCEPT !.upserted = request.upserted \cup {request.i}])
    /\ UNCHANGED <<BASESCAN_API_KEY, pool, developers, inflight, last>>

(***************************************************************************)
(* recalculateRankings: two UPDATE statements, each numbering the rows by  *)
(* ROW_NUMBER() OVER (ORDER BY column DESC).  The ORDER BY names no second *)
(* column: rows with equal values come in an order the database chooses.   *)
(***************************************************************************)
RowOrders(n) ==
    {p \in [1..n -> 1..n] : \A i, j \in 1..n : i # j => p[i] # p[j]}

\* ORDER BY ... ASC
OrderBy_Ascending(keys) ==
    {p \in RowOrders(Len(keys)) :
         \A k \in 1..(Len(keys) - 1) : keys[p[k]] <= keys[p[k + 1]]}

\* ORDER BY ... DESC: the orders of the row positions the sort may produce
OrderBy(keys) ==
    {p \in RowOrders(Len(keys)) :
         \A k \in 1..(Len(keys) - 1) : keys[p[k]] >= keys[p[k + 1]]}

\* ROW_NUMBER(): the position of each row in the order
ROW_NUMBER(order) ==
    [i \in 1..Len(order) |-> CHOOSE k \in 1..Len(order) : order[k] = i]

\* UPDATE project_stats SET rank_tx = sub.rank ...
RankByTransactions ==
    /\ request.op = "updateAllStats"
    /\ request.pc = "rank_tx"
    /\ \E thrown \in BOOLEAN :
           IF thrown
           THEN \* caught in recalculateRankings; updateAllStats returns
                /\ last' = PassEvent(request, TRUE, FALSE)
                /\ request' = Idle
                /\ UNCHANGED project_stats
           ELSE \E order \in OrderBy([i \in 1..Len(project_stats) |->
                                         project_stats[i].total_transactions]) :
                    /\ project_stats' =
                           [i \in 1..Len(project_stats) |->
                                [project_stats[i] EXCEPT !.rank_tx = ROW_NUMBER(order)[i]]]
                    /\ request' = [request EXCEPT
                           !.pc = "rank_unique",
                           !.before = [i \in 1..Len(project_stats) |->
                                           <<project_stats[i].rank_tx,
                                             project_stats[i].rank_unique>>]]
                    /\ UNCHANGED last
    /\ UNCHANGED <<BASESCAN_API_KEY, pool, developers, inflight>>

\* UPDATE project_stats SET rank_unique = sub.rank ...
RankByUniqueWallets ==
    /\ request.op = "updateAllStats"
    /\ request.pc = "rank_unique"
    /\ \E thrown \in BOOLEAN :
           IF thrown
           THEN /\ last' = PassEvent(request, TRUE, FALSE)
                /\ UNCHANGED project_stats
           ELSE \E order \in OrderBy([i \in 1..Len(project_stats) |->
                                         project_stats[i].unique_wallets]) :
                    /\ project_stats' =
                           [i \in 1..Len(project_stats) |->
                                [project_stats[i] EXCEPT !.rank_unique = ROW_NUMBER(order)[i]]]
                    /\ last' = PassEvent(request, TRUE, TRUE)
    /\ request' = Idle
    /\ UNCHANGED <<BASESCAN_API_KEY, pool, developers, inflight>>

(***************************************************************************)
(* Specification of the stats engine: passes of the cron job, one after    *)
(* the other, over a table with two approved developers (one of them not   *)
(* yet in project_stats), a pending one, and the stats row of a developer  *)
(* who is no longer approved.                                              *)
(***************************************************************************)
PassDeveloper(w, c, is_approved, is_rejected) ==
    [NewDeveloper([NoBody EXCEPT !.walletAddress = Addr(w, "lower"),
                                 !.mainContract = Addr(c, "lower"),
                                 !.xUsername = "alice"])
         EXCEPT !.is_approved = is_approved, !.is_rejected = is_rejected]

PassDevelopers ==
    <<PassDeveloper("w1", "c1", TRUE, FALSE),
      PassDeveloper("w3", "c3", FALSE, TRUE),
      PassDeveloper("w2", "c2", TRUE, FALSE),
      PassDeveloper("w4", "c4", FALSE, FALSE)>>

PassStats ==
    <<NewStats(Addr("w1", "lower"), Addr("c1", "lower")),
      [NewStats(Addr("w3", "lower"), Addr("c3", "lower")) EXCEPT
           !.total_transactions = 1, !.transactions_last_12h = 1,
           !.unique_wallets = 2, !.wallets_last_12h = 2]>>

\* Date.now() when the passes of the specification run
PassClock == {15}

PassInit ==
    /\ BASESCAN_API_KEY = TRUE
    /\ pool \in BOOLEAN
    /\ developers = PassDevelopers
    /\ project_stats = PassStats
    /\ inflight = EmptyBag
    /\ request = Idle
    /\ last = [op |-> "init"]

PassNext ==
    \/ PassSelect
    \/ \E now \in PassClock : PassFetch(now)
    \/ PassPrevStats
    \/ PassUpsert
    \/ RankByTransactions
    \/ RankByUniqueWallets

PassSpec == PassInit /\ [][PassNext]_vars

\* the event loop runs the pass on once the promise it awaits has settled
PassFairSpec ==
    /\ PassSpec
    /\ WF_vars(\E now \in PassClock : PassFetch(now))
    /\ WF_vars(PassPrevStats)
    /\ WF_vars(PassUpsert)
    /\ WF_vars(RankByTransactions)
    /\ WF_vars(RankByUniqueWallets)

(***************************************************************************)
(* GET /api/stats/:walletAddress, the reader of one row of project_stats.  *)
(* Its two SELECTs are taken in one step: no handler of the model changes  *)
(* developers and project_stats between them in the specification below.   *)
(***************************************************************************)
StatsResponse(status, row) ==
    [status |-> status,
     stats |-> [totalTransactions |-> row.total_transactions,
                transactionsLast12h |-> row.transactions_last_12h,
                uniqueWallets |-> row.unique_wallets,
                walletsLast12h |-> row.wallets_last_12h,
                growthRate |-> row.growth_rate,
                rankTx |-> row.rank_tx, rankUnique |-> row.rank_unique]]

GetStats(walletAddress) ==
    LET wallet_address == toLowerCase(walletAddress)
        d == FindWallet(developers, wallet_address, 1)
        i == FindWallet(project_stats, wallet_address, 1)
        default == NewStats(wallet_address, EMPTY)
        ev(resp) == [op |-> "stats", walletAddress |-> walletAddress, response |-> resp]
    IN  /\ NoneOnWire
        /\ IF ~pool
           THEN last' = ev(StatsResponse(503, default))
           ELSE IF d = 0 \/ ~developers[d].is_approved
           THEN last' = ev(StatsResponse(404, default))
           ELSE IF i = 0
           THEN last' = ev(StatsResponse(200, default))
           ELSE last' = ev(StatsResponse(200, project_stats[i]))
        /\ UNCHANGED <<BASESCAN_API_KEY, pool, developers, project_stats, inflight, request>>

(***************************************************************************)
(* Specification of the stats of one project: passes over one approved     *)
(* developer, at two times of day, next to the stats row of another        *)
(* project, while the stats of the developer are read.                     *)
(***************************************************************************)
ReaderDevelopers ==
    <<PassDeveloper("w1", "c1", TRUE, FALSE),
      PassDeveloper("w3", "c3", TRUE, FALSE),
      PassDeveloper("w4", "c4", FALSE, FALSE)>>

\* Date.now(): 14 is twelve hours after the transaction at 2, 15 is later
ReaderClock == {14, 15}

ReaderInit ==
    /\ BASESCAN_API_KEY = TRUE
    /\ pool = TRUE
    /\ developers = ReaderDevelopers
    /\ project_stats = PassStats
    /\ inflight = EmptyBag
    /\ request = Idle
    /\ last = [op |-> "init"]

ReaderNext ==
    \/ PassSelect
    \/ \E now \in ReaderClock : PassFetch(now)
    \/ PassPrevStats
    \/ PassUpsert
    \/ RankByTransactions
    \/ RankByUniqueWallets
    \/ \E w \in {Addr("w1", "mixed"), Addr("w4", "lower")} : GetStats(w)

ReaderSpec == ReaderInit /\ [][ReaderNext]_vars

(***************************************************************************)
(* Specification of the life of one project: its submission, pending at    *)
(* first, is approved, rejected and resubmitted by the admin and its       *)
(* wallet while the cron job runs its passes.                              *)
(***************************************************************************)
LifecycleBody == CHOOSE b \in GateBodies : b.xUsername = "alice"

LifecycleInit ==
    /\ BASESCAN_API_KEY = TRUE
    /\ pool = TRUE
    /\ developers = <<NewDeveloper(LifecycleBody)>>
    /\ project_stats = <<>>
    /\ inflight = EmptyBag
    /\ request = Idle
    /\ last = [op |-> "init"]

\* the resubmission: the other body of the wallet, with another main contract
Resubmission == CHOOSE b \in GateBodies : b # LifecycleBody

\* the explorer lists the creation of the contract by the wallet
LifecycleAnswers(c) == {a \in GateAnswers(c) : a.r1.status = "1"}

\* the submissionId of the admin requests: the row of the project, no such row
LifecycleIds == {1, 2}

LifecycleNext ==
    \/ \E a \in LifecycleAnswers(Resubmission.mainContract) : RegisterSelect(Resubmission, a)
    \/ \E w \in BagToSet(inflight) : RegisterWrite(w)
    \/ \E id \in LifecycleIds : ApproveUpdate(ADMIN_WALLET, id)
    \/ \E w \in BagToSet(inflight) : ApproveStats(w)
    \/ \E id \in LifecycleIds : Reject(ADMIN_WALLET, id, "spam")
    \/ PassSelect
    \/ \E now \in PassClock : PassFetch(now)
    \/ PassPrevStats
    \/ PassUpsert
    \/ RankByTransactions
    \/ RankByUniqueWallets

LifecycleSpec == LifecycleInit /\ [][LifecycleNext]_vars

(***************************************************************************)
(* GET /api/leaderboard: the approved developers, each with its stats row  *)
(* when it has one, in the order of a rank column and then of its count.   *)
(***************************************************************************)
limit == 100            \* const limit = 100
MissingRank == 999      \* COALESCE(s.rank_tx, 999)

\* x_username.replace('@', '')
replaceAt(s) == CASE s = "@alice" -> "alice"
                  [] s = "@bob" -> "bob"
                  [] OTHER -> s

\* developers d LEFT JOIN project_stats s ... WHERE d.is_approved = TRUE
LeaderboardJoin ==
    LET approved == SelectSeq(developers, LAMBDA d : d.is_approved)
        joined(d) ==
            LET j == FindWallet(project_stats, d.wallet_address, 1)
                coalesce(x, default) == IF x = NoRank THEN default ELSE x
            IN  [wallet_address |-> d.wallet_address,
                 x_username |-> d.x_username,
                 contract_address |-> d.main_contract,
                 total_transactions |-> IF j = 0 THEN 0 ELSE project_stats[j].total_transactions,
                 unique_wallets |-> IF j = 0 THEN 0 ELSE project_stats[j].unique_wallets,
                 rank_tx |-> IF j = 0 THEN MissingRank
                             ELSE coalesce(project_stats[j].rank_tx, MissingRank),
                 rank_unique |-> IF j = 0 THEN MissingRank
                                 ELSE coalesce(project_stats[j].rank_unique, MissingRank)]
    IN  [k \in 1..Len(approved) |-> joined(approved[k])]

\* ORDER BY rank_unique ASC, unique_wallets DESC, or
\* ORDER BY rank_tx ASC, total_transactions DESC: the orders the sort may
\* produce (rows equal in both columns come in any order)
LeaderboardOrders(rows, sortBy) ==
    LET rank(r) == IF sortBy = "wallets" THEN r.rank_unique ELSE r.rank_tx
        count(r) == IF sortBy = "wallets" THEN r.unique_wallets ELSE r.total_transactions
    IN  {p \in RowOrders(Len(rows)) :
             \A k \in 1..(Len(rows) - 1) :
                 \/ rank(rows[p[k]]) < rank(rows[p[k + 1]])
                 \/ /\ rank(rows[p[k]]) = rank(rows[p[k + 1]])
                    /\ count(rows[p[k]]) >= count(rows[p[k + 1]])}

\* result.rows.map(...)
LeaderboardEntry(row) ==
    [walletAddress |-> row.wallet_address,
     projectName |-> replaceAt(row.x_username),
     contractAddress |-> row.contract_address,
     totalTransactions |-> row.total_transactions,
     uniqueWallets |-> row.unique_wallets,
     xUsername |-> row.x_username]

GetLeaderboard(sortBy) ==
    LET rows == LeaderboardJoin
        n == IF Len(rows) < limit THEN Len(rows) ELSE limit     \* LIMIT $1
        ev(status, leaderboard) ==
            [op |-> "leaderboard", sort |-> sortBy,
             response |-> [status |-> status, leaderboard |-> leaderboard]]
    IN  /\ NoneOnWire
        /\ IF ~pool
           THEN last' = ev(503, <<>>)
           ELSE \E p \in LeaderboardOrders(rows, sortBy) :
                    last' = ev(200, [k \in 1..n |-> LeaderboardEntry(rows[p[k]])])
        /\ UNCHANGED <<BASESCAN_API_KEY, pool, developers, project_stats, inflight, request>>

(***************************************************************************)
(* Specification of the leaderboard: it is read, in its two orders, while  *)
(* the cron job runs its passes over two approved developers.              *)
(***************************************************************************)
BoardSorts == {"transactions", "wallets"}

BoardNext ==
    \/ PassSelect
    \/ \E now \in PassClock : PassFetch(now)
    \/ PassPrevStats
    \/ PassUpsert
    \/ RankByTransactions
    \/ RankByUniqueWallets
    \/ \E sortBy \in BoardSorts : GetLeaderboard(sortBy)

BoardSpec == ReaderInit /\ [][BoardNext]_vars

(***************************************************************************)
(* The schedule.  cron.schedule and, in development mode, the startup      *)
(* timer call updateAllStats() without looking at what is running: a call  *)
(* made while an earlier pass is at one of its awaits starts another pass, *)
(* and the continuations of the passes then run in any order.  The passes  *)
(* that are not the one taking the next step wait in inflight.             *)
(***************************************************************************)
\* a callback of the schedule fires while a pass is running
PassTrigger ==
    /\ request.op = "updateAllStats"
    /\ request.pc # "idle"
    /\ pool
    /\ BagCardinality(inflight) < MaxInflight
    /\ inflight' = inflight (+) SetToBag({request})
    /\ request' = NextDeveloper([Idle EXCEPT !.rows = ApprovedDevelopers(developers)])
    /\ UNCHANGED <<BASESCAN_API_KEY, pool, developers, project_stats, last>>

\* the await of another pass settles: its continuation is the next to run
PassResume(w) ==
    /\ request.op = "updateAllStats"
    /\ BagIn(w, inflight)
    /\ w.op = "updateAllStats"
    /\ request' = w
    /\ inflight' = (inflight (-) SetToBag({w}))
                       (+) (IF request.pc = "idle" THEN EmptyBag ELSE SetToBag({request}))
    /\ UNCHANGED <<BASESCAN_API_KEY, pool, developers, project_stats, last>>

(***************************************************************************)
(* Specification of the schedule: the passes the callbacks start over one  *)
(* approved developer.                                                     *)
(***************************************************************************)
ScheduleInit ==
    /\ BASESCAN_API_KEY = TRUE
    /\ pool = TRUE
    /\ developers = <<PassDeveloper("w1", "c1", TRUE, FALSE)>>
    /\ project_stats = <<NewStats(Addr("w1", "lower"), Addr("c1", "lower"))>>
    /\ inflight = EmptyBag
    /\ request = Idle
    /\ last = [op |-> "init"]

ScheduleNext ==
    \/ PassSelect
    \/ PassTrigger
    \/ \E w \in BagToSet(inflight) : PassResume(w)
    \/ \E now \in PassClock : PassFetch(now)
    \/ PassPrevStats
    \/ PassUpsert
    \/ RankByTransactions
    \/ RankByUniqueWallets

ScheduleSpec == ScheduleInit /\ [][ScheduleNext]_vars

(***************************************************************************)
(* Properties of the stats engine (PassSpec, PassFairSpec)                 *)
(***************************************************************************)
\* the pass is in the loop body of the developer request.rows[request.i]
InLoopBody == request.op = "updateAllStats" /\ request.pc \in {"fetch", "prev", "upsert"}

\* the explorer did not deliver the list: timeout or network error, rate limit
FetchFailed(response) ==
    \/ response.status = "throw"
    \/ response.status = "0" /\ response.message = "NOTOK"

\* the columns of a stats row that a pass computes
Counts(row) ==
    <<row.total_transactions, row.transactions_last_12h, row.unique_wallets,
      row.wallets_last_12h, row.growth_rate>>

\* C15: while a pass handles a developer whose transaction list could not
\* be fetched, the five computed columns of the developer's stats row stay
\* as they were.
C15_FailedFetchKeepsStats ==
    [][(/\ request.op = "updateAllStats"
        /\ request.pc \in {"prev", "upsert"}
        /\ FetchFailed(request.fetched))
           => LET i == FindWallet(project_stats,
                                  request.rows[request.i].wallet_address, 1)
              IN  i > 0 => Counts(project_stats'[i]) = Counts(project_stats[i])]_vars

\* C16: a throw in the loop body of one developer is followed by the next
\* developer or, after the last, by the rankings; a pass that selected its
\* developers returns after recalculateRankings was called, each developer
\* having been upserted unless it threw itself; and a running pass whose
\* requests are all answered gets to the rankings.
C16_OneFailureDoesNotAbortThePass ==
    /\ [][(InLoopBody /\ request' # request)
              => /\ request'.pc \in {"fetch", "prev", "upsert", "rank_tx", "hung"}
                 /\ request'.rows = request.rows
                 /\ request'.pc = "rank_tx" <=> (request'.pc \notin {"prev", "upsert", "hung"}
                                                 /\ request.i = Len(request.rows))
                 /\ request'.pc = "fetch" => request'.i = request.i + 1
                 /\ request'.pc \in {"prev", "upsert", "hung"} => request'.i = request.i]_vars
    /\ []((last.op = "updateAllStats" /\ pool)
              => /\ last.rankingCalled
                 /\ last.failed \cup last.upserted = 1..last.approved
                 /\ last.failed \cap last.upserted = {})
    /\ (InLoopBody ~> (request.pc \in {"rank_tx", "hung"}))

\* a pass in which one developer threw and another was upserted has returned
C16_Witness ==
    /\ last.op = "updateAllStats"
    /\ last.failed = {1}
    /\ last.upserted = {2}
    /\ last.rankingCompleted
    /\ Len(project_stats) = 3

\* C17: updateAllStats returns a report with processed = succeeded + failed
\* = number of approved developers selected by the pass, and failed = number
\* of developers whose loop body did not complete.
C17_PassReportCounts ==
    last.op = "updateAllStats"
        => /\ last.returned.defined
           /\ last.returned.processed = last.approved
           /\ last.returned.processed = last.returned.succeeded + last.returned.failed
           /\ last.returned.failed = Cardinality(last.failed)

\* recalculateRankings has just completed both of its statements
RankingsCompleted ==
    /\ request.op = "updateAllStats"
    /\ request.pc = "idle"
    /\ last.op = "updateAllStats"
    /\ last.rankingCompleted

\* C18: the ranks are a function of the stats alone: of two rows with equal
\* total_transactions (unique_wallets) the one inserted first has the
\* smaller rank_tx (rank_unique) after every completed ranking, so that a
\* second ranking of unchanged stats, in this pass or a later one, assigns
\* the same ranks.
C18_TiesKeepFirstSeenOrder ==
    RankingsCompleted
        => \A a, b \in 1..Len(project_stats) :
               a < b =>
                   /\ project_stats[a].total_transactions = project_stats[b].total_transactions
                          => project_stats[a].rank_tx < project_stats[b].rank_tx
                   /\ project_stats[a].unique_wallets = project_stats[b].unique_wallets
                          => project_stats[a].rank_unique < project_stats[b].rank_unique

\* C19: after a completed recalculateRankings over N rows every row has
\* both ranks, each rank column takes every value of 1..N once, and a row
\* with more transactions (unique wallets) has the smaller rank_tx
\* (rank_unique).
C19_RanksAreDescendingBijections ==
    RankingsCompleted
        => LET N == Len(project_stats)
           IN  /\ \A i \in 1..N : /\ project_stats[i].rank_tx \in 1..N
                                  /\ project_stats[i].rank_unique \in 1..N
               /\ \A k \in 1..N : /\ \E i \in 1..N : project_stats[i].rank_tx = k
                                  /\ \E i \in 1..N : project_stats[i].rank_unique = k
               /\ \A a, b \in 1..N :
                      /\ (a # b /\ project_stats[a].rank_tx = project_stats[b].rank_tx) => FALSE
                      /\ (a # b /\ project_stats[a].rank_unique = project_stats[b].rank_unique)
                             => FALSE
                      /\ project_stats[a].total_transactions > project_stats[b].total_transactions
                             => project_stats[a].rank_tx < project_stats[b].rank_tx
                      /\ project_stats[a].unique_wallets > project_stats[b].unique_wallets
                             => project_stats[a].rank_unique < project_stats[b].rank_unique

\* three rows were ranked, one of them not handled by the pass: one total
\* larger than the two others, which are equal
C19_Witness ==
    /\ RankingsCompleted
    /\ Len(project_stats) = 3
    /\ last.upserted = {1, 2}
    /\ project_stats[1].total_transactions > project_stats[2].total_transactions
    /\ project_stats[2].total_transactions = project_stats[3].total_transactions
    /\ project_stats[2].unique_wallets = project_stats[3].unique_wallets
    /\ project_stats[1].rank_tx = 1

\* C20: the growth rate a pass computes for a developer is
\* (totalTransactions - previousTotal) / previousTotal * 100, previousTotal
\* being the total stored in the developer's row when the pass upserts it,
\* if that row exists with previousTotal > 0, and 0 otherwise; the upsert
\* stores it with two decimals.
C20_GrowthRate ==
    [][(request.op = "updateAllStats" /\ request.pc = "upsert"
        /\ project_stats' # project_stats)
           => LET w == request.rows[request.i].wallet_address
                  i == FindWallet(project_stats, w, 1)
                  j == FindWallet(project_stats', w, 1)
                  previousTotal == project_stats[i].total_transactions
                  g == request.growthRate
              IN  /\ j > 0
                  /\ project_stats'[j].total_transactions = request.totalTransactions
                  /\ g.den > 0
                  /\ project_stats'[j].growth_rate = Decimal2(g)
                  /\ IF i > 0 /\ previousTotal > 0
                     THEN g.num * previousTotal
                              = (request.totalTransactions - previousTotal) * 100 * g.den
                     ELSE g.num = 0]_vars

\* a total of 3 went down to 1: -66.67 % is about to be stored
C20_Witness ==
    /\ request.op = "updateAllStats"
    /\ request.pc = "upsert"
    /\ request.totalTransactions = 1
    /\ request.growthRate = Quotient(0 - 200, 3)
    /\ Decimal2(request.growthRate) = 0 - 6667

(***************************************************************************)
(* Properties of the stats of one project (ReaderSpec)                     *)
(***************************************************************************)
\* the number of elements of a sequence that satisfy Test
CountOf(seq, Test(_)) == Cardinality({k \in 1..Len(seq) : Test(seq[k])})

\* C21: the total a pass computes for a project and stores is the length of
\* the list it fetched; the 12-hour count it computes and stores is the
\* number of transactions of the list whose block timestamp is at or after
\* Date.now() minus twelve hours.
C21_TotalAndLast12h ==
    /\ []((request.op = "updateAllStats" /\ request.pc \in {"prev", "upsert"}
           /\ request.fetched.status = "1")
              => /\ request.totalTransactions = Len(request.fetched.result)
                 /\ request.transactionsLast12h =
                        CountOf(request.fetched.result,
                                LAMBDA tx : tx.timeStamp >= request.twelveHoursAgo))
    /\ [][(request.op = "updateAllStats" /\ request.pc = "upsert"
           /\ request.fetched.status = "1" /\ project_stats' # project_stats)
              => LET j == FindWallet(project_stats',
                                     request.rows[request.i].wallet_address, 1)
                 IN  /\ j > 0
                     /\ project_stats'[j].total_transactions = Len(request.fetched.result)
                     /\ project_stats'[j].transactions_last_12h =
                            CountOf(request.fetched.result,
                                    LAMBDA tx : tx.timeStamp >= request.twelveHoursAgo)]_vars

\* three transactions, one of them exactly twelve hours old and one older:
\* 3 in total, 2 in the last twelve hours
C21_Witness ==
    /\ request.op = "updateAllStats"
    /\ request.pc = "upsert"
    /\ Len(request.fetched.result) = 3
    /\ \E k \in 1..3 : request.fetched.result[k].timeStamp = request.twelveHoursAgo
    /\ \E k \in 1..3 : request.fetched.result[k].timeStamp < request.twelveHoursAgo
    /\ request.totalTransactions = 3
    /\ request.transactionsLast12h = 2

\* C22: the ranks a GET /api/stats reader was given while recalculateRankings
\* ran are, for both columns, those the row had when the recalculation was
\* called or those it has when the recalculation is complete.
C22_ReadersSeeNoTornRanks ==
    [][(/\ request.op = "updateAllStats"
        /\ request.pc = "rank_unique"
        /\ last.op = "stats"
        /\ last.response.status = 200
        /\ last'.op = "updateAllStats"
        /\ last'.rankingCompleted)
           => LET i == FindWallet(project_stats, toLowerCase(last.walletAddress), 1)
                  seen == <<last.response.stats.rankTx, last.response.stats.rankUnique>>
              IN  i > 0 => \/ seen = request.before[i]
                           \/ seen = <<project_stats'[i].rank_tx,
                                       project_stats'[i].rank_unique>>]_vars

(***************************************************************************)
(* Properties of the review (Spec)                                         *)
(***************************************************************************)
\* C23: a row of developers has a rejection reason only while it is rejected;
\* a row rejected with a reason and approved later carries no reason.
C23_ReasonOnlyWhenRejected ==
    \A i \in 1..Len(developers) :
        developers[i].rejection_reason # NullText => Status(developers[i]) = "rejected"

\* C24: every row of project_stats belongs to a wallet whose row of
\* developers is approved.
C24_StatsOnlyOfApproved ==
    \A j \in 1..Len(project_stats) :
        \E i \in 1..Len(developers) :
            /\ developers[i].wallet_address = project_stats[j].wallet_address
            /\ Status(developers[i]) = "approved"

\* the header names the configured admin wallet
CarriesAdminWallet(header) == header # EMPTY /\ toLowerCase(header) = ADMIN_WALLET

AdminOps == {"approve", "approve:update", "reject"}

\* C26: an approve or reject request whose x-admin-wallet header is absent or
\* names another wallet is answered 403 and changes no row of developers and
\* no row of project_stats; a row becomes approved or rejected only in a step
\* of a request that carries the admin wallet.
C26_OnlyTheAdminReviews ==
    [][/\ (last'.op \in AdminOps /\ ~CarriesAdminWallet(last'.header))
           => /\ last'.response.status = 403
              /\ developers' = developers
              /\ project_stats' = project_stats
       /\ \A i \in 1..Len(developers) :
              (/\ Status(developers'[i]) # Status(developers[i])
               /\ Status(developers'[i]) \in {"approved", "rejected"})
                  => /\ last'.op \in {"approve:update", "reject"}
                     /\ CarriesAdminWallet(last'.header)
                     /\ last'.submissionId = i]_vars

\* another wallet asked for the approval of a pending row and was refused
C26_Witness ==
    /\ last.op = "approve"
    /\ last.header = Addr("w1", "lower")
    /\ last.response.status = 403
    /\ Len(developers) > 0
    /\ Status(developers[last.submissionId]) = "pending"

(***************************************************************************)
(* Properties of the resolver's chain (ResolverSpec)                       *)
(***************************************************************************)
\* the deployer each of the two explorer steps yields for a request or event
ListScanYields(x) == Method1(x.r1, toLowerCase(x.contractAddress))
LookupYields(x) == Method2(x.r2)

\* C27: the creation lookup is called only when the scan of the transaction
\* list yielded no deployer, the bytecode check only when neither of the two
\* yielded one; the step that yields a deployer is the last one called and
\* its deployer is the one returned.
C27_FallbackOrder ==
    /\ (request.op = "verify-contract-owner" /\ request.pc = "method2")
           => /\ request.calls = <<"txlist">>
              /\ ListScanYields(request) = NULL
    /\ (request.op = "verify-contract-owner" /\ request.pc = "method3")
           => \/ ~BASESCAN_API_KEY /\ request.calls = <<>>
              \/ /\ request.calls = <<"txlist", "getcontractcreation">>
                 /\ ListScanYields(request) = NULL
                 /\ LookupYields(request) = NULL
    /\ (last.op = "verify-contract-owner" /\ last.response.status = 200)
           => LET res == last.response.resolve
              IN  \/ /\ res.calls = <<"txlist">>
                     /\ ListScanYields(last) # NULL
                     /\ res.deployer = ListScanYields(last)
                  \/ /\ res.calls = <<"txlist", "getcontractcreation">>
                     /\ ListScanYields(last) = NULL
                     /\ LookupYields(last) # NULL
                     /\ res.deployer = LookupYields(last)
                  \/ /\ res.calls = <<"txlist", "getcontractcreation", "getCode">>
                     /\ ListScanYields(last) = NULL
                     /\ LookupYields(last) = NULL
                     /\ res.deployer = NULL
                  \/ /\ res.calls = <<"getCode">>
                     /\ res.deployer = NULL

\* the list request failed; the lookup yielded the deployer and was the last call
C27_Witness ==
    /\ last.op = "verify-contract-owner"
    /\ last.response.status = 200
    /\ last.r1.status # "1"
    /\ last.response.resolve.calls = <<"txlist", "getcontractcreation">>
    /\ last.response.resolve.deployer # NULL

(***************************************************************************)
(* Properties of the order and the frame of a pass (PassSpec, PassFairSpec)*)
(***************************************************************************)
Ranking == request.op = "updateAllStats" /\ request.pc \in {"rank_tx", "rank_unique"}

\* the columns of a row that recalculateRankings does not set
Unranked(row) == [row EXCEPT !.rank_tx = NoRank, !.rank_unique = NoRank]

\* C28: recalculateRankings starts only when the loop body of every approved
\* developer of the pass has completed or was left through its catch, and no
\* upsert of the pass takes place once it has started.
C28_RankingAfterAllUpserts ==
    /\ [](Ranking => /\ request.upserted \cup request.failed = 1..Len(request.rows)
                     /\ request.upserted \cap request.failed = {})
    /\ [][Ranking => /\ request'.pc \in {"rank_unique", "idle"}
                     /\ Len(project_stats') = Len(project_stats)
                     /\ \A j \in 1..Len(project_stats) :
                            Unranked(project_stats'[j]) = Unranked(project_stats[j])]_vars

\* the ranking is about to start after a pass over two developers: the body
\* of the first was left through its catch, the second was upserted
C28_Witness ==
    /\ request.op = "updateAllStats"
    /\ request.pc = "rank_tx"
    /\ Len(request.rows) = 2
    /\ request.failed = {1}
    /\ request.upserted = {2}

\* C29: every pass that has started finishes, also when the explorer never
\* answers the transaction-list request of one of its projects.
C29_EveryPassFinishes ==
    (request.op = "updateAllStats" /\ request.pc = "fetch")
        ~> (request.op = "updateAllStats" /\ request.pc = "idle")

\* C30: the upsert of a pass changes, in the row of its developer, only the
\* four counts and the growth rate (and last_scanned, which the model does
\* not keep): rank_tx, rank_unique, wallet_address and main_contract of the
\* row stay, and so does every other row; a row it inserts has no ranks.
C30_UpsertFrame ==
    [][(request.op = "updateAllStats" /\ request.pc = "upsert"
        /\ project_stats' # project_stats)
           => LET wallet_address == request.rows[request.i].wallet_address
                  j == FindWallet(project_stats, wallet_address, 1)
                  n == Len(project_stats)
              IN  /\ \A k \in 1..n : k # j => project_stats'[k] = project_stats[k]
                  /\ IF j = 0
                     THEN /\ Len(project_stats') = n + 1
                          /\ project_stats'[n + 1].wallet_address = wallet_address
                          /\ project_stats'[n + 1].rank_tx = NoRank
                          /\ project_stats'[n + 1].rank_unique = NoRank
                     ELSE /\ Len(project_stats') = n
                          /\ project_stats'[j].wallet_address = project_stats[j].wallet_address
                          /\ project_stats'[j].main_contract = project_stats[j].main_contract
                          /\ project_stats'[j].rank_tx = project_stats[j].rank_tx
                          /\ project_stats'[j].rank_unique = project_stats[j].rank_unique]_vars

\* a row ranked by an earlier pass has been upserted by the running one, with
\* counts that are not those of a new row, next to the row of another wallet
C30_Witness ==
    /\ request.op = "updateAllStats"
    /\ request.pc \in {"fetch", "rank_tx"}
    /\ Len(project_stats) > 1
    /\ \E i \in request.upserted :
           LET j == FindWallet(project_stats, request.rows[i].wallet_address, 1)
           IN  /\ j > 0
               /\ project_stats[j].rank_tx # NoRank
               /\ project_stats[j].rank_unique # NoRank
               /\ project_stats[j].total_transactions > 0

(***************************************************************************)
(* Properties of the life of a project (LifecycleSpec)                     *)
(***************************************************************************)
HasStats(rows, wallet_address) == FindWallet(rows, wallet_address, 1) > 0

\* C25: when an approve of an existing row of developers completes, a row of
\* project_stats exists for its wallet; and no step of a pass, of the
\* ranking, of a registration or of the review removes the stats row of a
\* wallet whose submission is approved.
C25_StatsRowOfApprovedStays ==
    [][/\ (/\ last'.op = "approve"
           /\ last'.response.status = 200
           /\ last' # last
           /\ last'.submissionId \in 1..Len(developers))
              => HasStats(project_stats', developers[last'.submissionId].wallet_address)
       /\ \A i \in 1..Len(developers) :
              (/\ Status(developers[i]) = "approved"
               /\ Status(developers'[i]) = "approved"
               /\ HasStats(project_stats, developers[i].wallet_address))
                  => HasStats(project_stats', developers'[i].wallet_address)]_vars

\* the approved project, whose stats row the approval inserted, has been
\* through a pass and its ranking
C25_Witness ==
    /\ last.op = "updateAllStats"
    /\ last.rankingCompleted
    /\ Len(developers) = 1
    /\ Status(developers[1]) = "approved"
    /\ HasStats(project_stats, developers[1].wallet_address)
    /\ project_stats[1].rank_tx # NoRank

(***************************************************************************)
(* Properties of the optional contracts of a registration (Spec)           *)
(***************************************************************************)
\* one of the two optional contract addresses is given and is no address
InvalidOptional(req) ==
    \E o \in {req.optionalContract1, req.optionalContract2} : Truthy(o) /\ ~isAddress(o)

\* C31: a register request one of whose optional contract addresses is given
\* and syntactically invalid is refused, and nothing of it is stored.
C31_InvalidOptionalIsRefused ==
    [][(last'.op = "register" /\ last' # last /\ InvalidOptional(last'.req))
           => /\ last'.response.status \notin {0, 200}
              /\ developers' = developers]_vars

(***************************************************************************)
(* Properties of the upstream failures of the resolver (ResolverSpec)      *)
(***************************************************************************)
\* the transaction-list call was not answered: timeout or network error
\* (axios rejects), or the rate limit of the explorer
Failed(r) == r.status = "throw" \/ r.message = "NOTOK"

\* how many times the resolver called an upstream
TimesCalled(calls, name) == Cardinality({k \in 1..Len(calls) : calls[k] = name})

\* C32: an explorer call of a request that fails is made a second time
\* before the resolver goes on to its next method, and a request all of whose
\* upstream calls fail is not answered as DeployerUnknown.
C32_FailedCallIsRetriedOnce ==
    (/\ last.op = "verify-contract-owner"
     /\ last.response.status = 200
     /\ BASESCAN_API_KEY)
        => LET calls == last.response.resolve.calls
           IN  /\ Failed(last.r1) => TimesCalled(calls, "txlist") = 2
               /\ (TimesCalled(calls, "getcontractcreation") > 0 /\ last.r2.status = "throw")
                      => TimesCalled(calls, "getcontractcreation") = 2
               /\ (Failed(last.r1) /\ last.r2.status = "throw" /\ last.r3 = "throw")
                      => ~ResponseSays(last.response, "DeployerUnknown")

(***************************************************************************)
(* Properties of the two status flags (Spec)                               *)
(***************************************************************************)
\* C33: no row of developers has is_approved and is_rejected both TRUE,
\* whatever the interleaving of register, approve and reject requests.
C33_NeverApprovedAndRejected ==
    \A i \in 1..Len(developers) :
        ~(developers[i].is_approved /\ developers[i].is_rejected)

\* a row that was rejected (it still carries the reason) is now approved,
\* and is not rejected any more
C33_Witness ==
    /\ Len(developers) > 0
    /\ developers[1].is_approved
    /\ ~developers[1].is_rejected
    /\ developers[1].rejection_reason = "spam"

(***************************************************************************)
(* Properties of the stored signature (RequestSpec)                        *)
(***************************************************************************)
\* C34: a verify-signature request changes the row of the wallet it names
\* only when the address recovered from the signature is that wallet, and
\* changes no approved row and no row of another wallet.
C34_OnlyTheWalletSignsItsRow ==
    [][(request.op = "verify-signature" /\ developers' # developers)
           => LET wallet_address == toLowerCase(request.walletAddress)
                  i == FindWallet(developers, wallet_address, 1)
                  recoveredAddress ==
                      verifyMessage(request.message, request.signature).address
              IN  /\ toLowerCase(recoveredAddress) = wallet_address
                  /\ i > 0
                  /\ ~developers[i].is_approved
                  /\ Len(developers') = Len(developers)
                  /\ \A k \in 1..Len(developers) : k # i => developers'[k] = developers[k]]_vars

(***************************************************************************)
(* Properties of the contract of a stats row (LifecycleSpec)               *)
(***************************************************************************)
\* C35: the stats row of an approved wallet names the main contract of its
\* row of developers, also after reject, resubmission with another main
\* contract, approve and a pass; and the growth rate a pass computes for a
\* project is not taken against the total of a row that names another
\* contract.
C35_StatsNameTheCurrentContract ==
    /\ [](\A i \in 1..Len(developers) :
              LET j == FindWallet(project_stats, developers[i].wallet_address, 1)
              IN  (Status(developers[i]) = "approved" /\ j > 0)
                      => project_stats[j].main_contract = developers[i].main_contract)
    /\ [][(request.op = "updateAllStats" /\ request.pc = "prev"
           /\ request'.pc = "upsert")
              => LET dev == request.rows[request.i]
                     j == FindWallet(project_stats, dev.wallet_address, 1)
                 IN  (j > 0 /\ project_stats[j].main_contract # dev.main_contract)
                         => request'.growthRate = Quotient(0, 1)]_vars

(***************************************************************************)
(* Properties of a repeated approval (LifecycleSpec)                       *)
(***************************************************************************)
\* the step is the UPDATE of an approve request / the end of one
ApproveUpdateStep ==
    last'.op = "approve:update" /\ BagCardinality(inflight') > BagCardinality(inflight)
ApproveStatsStep ==
    /\ last'.op = "approve" /\ last'.response.status = 200
    /\ BagCardinality(inflight') < BagCardinality(inflight)

NoSuchRow(id) == id \notin 1..Len(developers)

\* C38: the approval of an approved row leaves the row as it is, and leaves
\* the stats row of its wallet, when there is one, as it is (counts, growth
\* rate and ranks); an approve or a reject that names no row changes no row.
C38_ApproveIsIdempotent ==
    [][/\ ApproveUpdateStep
           => LET id == last'.submissionId
              IN  (NoSuchRow(id) \/ Status(developers[id]) = "approved")
                      => developers' = developers /\ project_stats' = project_stats
       /\ ApproveStatsStep
           => LET id == last'.submissionId
              IN  /\ developers' = developers
                  /\ (NoSuchRow(id) \/ HasStats(project_stats, developers[id].wallet_address))
                         => project_stats' = project_stats
       /\ (last'.op = "reject" /\ last' # last /\ NoSuchRow(last'.submissionId))
              => developers' = developers /\ project_stats' = project_stats]_vars

\* an approve of the approved project has completed after a pass has counted
\* and ranked it
C38_Witness ==
    /\ last.op = "approve"
    /\ last.response.status = 200
    /\ last.submissionId = 1
    /\ Status(developers[1]) = "approved"
    /\ Len(project_stats) = 1
    /\ project_stats[1].total_transactions > 0
    /\ project_stats[1].rank_tx # NoRank
    /\ project_stats[1].rank_unique # NoRank

(***************************************************************************)
(* Properties of the leaderboard (BoardSpec)                               *)
(***************************************************************************)
\* C37: a leaderboard that was served, also while a pass is between an
\* upsert and its ranking, lists approved developers only, at most 100 of
\* them, in non-increasing totalTransactions for the sort 'transactions' and
\* in non-increasing uniqueWallets for the sort 'wallets'.
C37_LeaderboardIsSorted ==
    (last.op = "leaderboard" /\ last.response.status = 200)
        => LET board == last.response.leaderboard
               count(e) == IF last.sort = "wallets" THEN e.uniqueWallets
                           ELSE e.totalTransactions
           IN  /\ Len(board) <= 100
               /\ \A k \in 1..Len(board) :
                      \E i \in 1..Len(developers) :
                          /\ developers[i].wallet_address = board[k].walletAddress
                          /\ developers[i].is_approved
               /\ \A k \in 1..(Len(board) - 1) : count(board[k]) >= count(board[k + 1])

(***************************************************************************)
(* Properties of the schedule (ScheduleSpec)                               *)
(***************************************************************************)
\* the passes that have started and have not returned
PassesInProgress ==
    (IF request.op = "updateAllStats" /\ request.pc # "idle" THEN 1 ELSE 0)
        + BagCardinality(inflight)

\* C36: at most one pass is in progress: no callback of the schedule starts
\* a pass while an earlier one has not finished its ranking.
C36_AtMostOnePass == PassesInProgress <= 1

====
